---------------------------- MODULE Spec2Model ----------------------------
(***************************************************************************)
(* Model of the spreadsheet-to-database sync of leonard-home-decor:        *)
(*   src/app/api/sync/route.ts  (HTTP handler POST and its pipeline)       *)
(*   src/unnamed/part_000       (the invocable sync job, same pipeline)    *)
(*                                                                         *)
(* A JavaScript string is a sequence of characters; a character is a       *)
(* TLA+ string token ("a", " ", or a named token such as "RUBLE" for a     *)
(* character outside ASCII).                                               *)
(***************************************************************************)
EXTENDS Integers, Sequences, FiniteSets, TLC

(***************************************************************************)
(* Bounds of the model.                                                    *)
(***************************************************************************)
\* rows of the sheet that hold data (the code reads up to 99, A2:J100)
MaxRows == 2

\* rows of the sheet in the specification of two overlapping runs
MaxConcRows == 1

\* rows of the sheet in the specification of the normalizer alone
MaxNormRows == 3

\* records of the batch insertProducts is called with, in the specification
\* of the writer alone (three chunks)
MaxProducts == 201

(***************************************************************************)
(* Characters and strings.                                                 *)
(***************************************************************************)
\* null / undefined of JavaScript where a string is expected: a sequence no
\* string equals (every character of a string is a one-character token)
Null == <<"<null>">>

WhiteSpace == {" ", "\t"}

DigitChars == <<"0", "1", "2", "3", "4", "5", "6", "7", "8", "9">>

IsDigit(c) == \E k \in 1..10 : DigitChars[k] = c

DigitVal(c) == (CHOOSE k \in 1..10 : DigitChars[k] = c) - 1

HexChars ==
  <<"0", "1", "2", "3", "4", "5", "6", "7", "8", "9", "a", "b", "c", "d", "e", "f">>

HexUpper == <<"A", "B", "C", "D", "E", "F">>

IsHexDigit(c) == (\E k \in 1..16 : HexChars[k] = c) \/ (\E k \in 1..6 : HexUpper[k] = c)

HexVal(c) ==
  IF \E k \in 1..16 : HexChars[k] = c
  THEN (CHOOSE k \in 1..16 : HexChars[k] = c) - 1
  ELSE (CHOOSE k \in 1..6 : HexUpper[k] = c) + 9

Min(a, b) == IF a <= b THEN a ELSE b

RECURSIVE Pow10(_)
Pow10(n) == IF n <= 0 THEN 1 ELSE 10 * Pow10(n - 1)

\* s.substring(from), from counted from 0
Substring(s, from) == SubSeq(s, from + 1, Len(s))

\* s.startsWith(prefix)
StartsWith(s, prefix) ==
  /\ Len(prefix) <= Len(s)
  /\ SubSeq(s, 1, Len(prefix)) = prefix

RECURSIVE TrimStart(_)
TrimStart(s) ==
  IF s # <<>> /\ Head(s) \in WhiteSpace THEN TrimStart(Tail(s)) ELSE s

RECURSIVE TrimEnd(_)
TrimEnd(s) ==
  IF s # <<>> /\ s[Len(s)] \in WhiteSpace THEN TrimEnd(SubSeq(s, 1, Len(s) - 1)) ELSE s

\* String.prototype.trim
Trim(s) == TrimEnd(TrimStart(s))

\* s.replace(/[set]/g, ''): every character of the set removed
RECURSIVE RemoveChars(_, _)
RemoveChars(s, set) ==
  IF s = <<>> THEN <<>>
  ELSE IF Head(s) \in set THEN RemoveChars(Tail(s), set)
  ELSE <<Head(s)>> \o RemoveChars(Tail(s), set)

\* number of characters of s from position p (1-based) on that satisfy the
\* digit test of the radix
RECURSIVE DigitRun(_, _, _)
DigitRun(s, p, hex) ==
  IF p > Len(s) THEN 0
  ELSE IF (IF hex THEN IsHexDigit(s[p]) ELSE IsDigit(s[p]))
  THEN 1 + DigitRun(s, p + 1, hex)
  ELSE 0

\* value of the n digits of s that start at position p, in radix 10 or 16
RECURSIVE DigitsValue(_, _, _, _)
DigitsValue(s, p, n, hex) ==
  IF n = 0 THEN 0
  ELSE DigitsValue(s, p, n - 1, hex) * (IF hex THEN 16 ELSE 10)
       + (IF hex THEN HexVal(s[p + n - 1]) ELSE DigitVal(s[p + n - 1]))

CharAt(s, p) == IF p >= 1 /\ p <= Len(s) THEN s[p] ELSE "<none>"


(***************************************************************************)
(* JavaScript numbers, as far as parseInt and parseFloat produce them: a   *)
(* finite decimal m / 10^d, NaN, or an infinity.  Finite values are exact  *)
(* (no rounding to a double), which is faithful for the short digit        *)
(* strings of the model.                                                   *)
(***************************************************************************)
NaN == [k |-> "nan", m |-> 0, d |-> 0]

Infinity(sign) == [k |-> "inf", m |-> sign, d |-> 0]

RECURSIVE Fin(_, _)
Fin(m, d) ==
  IF d > 0 /\ m % 10 = 0 THEN Fin(m \div 10, d - 1)
  ELSE [k |-> "fin", m |-> m, d |-> d]

NoPrice == [k |-> "null", m |-> 0, d |-> 0]

\* the decimal digits of a natural number
RECURSIVE DigitsOf(_)
DigitsOf(n) ==
  IF n < 10 THEN <<DigitChars[n + 1]>>
  ELSE DigitsOf(n \div 10) \o <<DigitChars[(n % 10) + 1]>>

\* the digits of n in front of which zeros make the length w
RECURSIVE ZeroPadded(_, _)
ZeroPadded(n, w) ==
  IF Len(DigitsOf(n)) >= w THEN DigitsOf(n)
  ELSE <<"0">> \o (IF w <= 1 THEN <<>> ELSE ZeroPadded(n, w - 1))

\* String(value) of a finite number: a minus sign for a negative value, the
\* integer digits, and a point with the fraction digits when there are any
\* (the values of the model lie between 1e-6 and 1e21, where JavaScript
\* writes no exponent)
NumberToString(v) ==
  LET a  == IF v.m < 0 THEN 0 - v.m ELSE v.m
      ip == a \div Pow10(v.d)
      fp == a % Pow10(v.d)
  IN  (IF v.m < 0 THEN <<"-">> ELSE <<>>)
      \o DigitsOf(ip)
      \o (IF v.d = 0 THEN <<>> ELSE <<".">> \o ZeroPadded(fp, v.d))

(***************************************************************************)
(* Cells of a raw row as the values read returns them: a string, or        *)
(* undefined where the row is shorter than the column index.  The rows are *)
(* any[][]: a cell may also be a number (the price code tests for one),    *)
(* held here as t = "num" with its decimal text String(value) in s.        *)
(***************************************************************************)
StrCell(s) == [t |-> "str", s |-> s]

NumCell(s) == [t |-> "num", s |-> s]

Undefined == [t |-> "undef", s |-> Null]

\* row[k], k counted from 0
Cell(row, k) == IF k + 1 <= Len(row) THEN row[k + 1] ELSE Undefined

\* String(value)
ToStr(c) ==
  IF c.t = "undef" THEN <<"u", "n", "d", "e", "f", "i", "n", "e", "d">> ELSE c.s

\* parseInt(value): leading white space skipped, an optional sign, an
\* optional 0x prefix (radix 16), then the longest run of digits; NaN when
\* there is no digit
parseInt(c) ==
  LET t    == TrimStart(ToStr(c))
      neg  == CharAt(t, 1) = "-"
      p0   == IF CharAt(t, 1) \in {"-", "+"} THEN 2 ELSE 1
      hex  == CharAt(t, p0) = "0" /\ CharAt(t, p0 + 1) \in {"x", "X"}
      p1   == IF hex THEN p0 + 2 ELSE p0
      n    == DigitRun(t, p1, hex)
      v    == DigitsValue(t, p1, n, hex)
  IN  IF n = 0 THEN NaN ELSE Fin(IF neg THEN 0 - v ELSE v, 0)

\* parseInt(row[4]) || 0
ParseStock(c) ==
  LET r == parseInt(c) IN IF r.k = "fin" THEN r.m ELSE 0

InfinityChars == <<"I", "n", "f", "i", "n", "i", "t", "y">>

\* parseFloat(string): leading white space skipped, then the longest prefix
\* that is a decimal literal: sign, digits, fraction, exponent; or Infinity
parseFloat(s) ==
  LET t     == TrimStart(s)
      neg   == CharAt(t, 1) = "-"
      sgn   == IF neg THEN 0 - 1 ELSE 1
      p0    == IF CharAt(t, 1) \in {"-", "+"} THEN 2 ELSE 1
      nI    == DigitRun(t, p0, FALSE)
      dot   == CharAt(t, p0 + nI) = "."
      nF    == IF dot THEN DigitRun(t, p0 + nI + 1, FALSE) ELSE 0
      pe    == p0 + nI + (IF dot THEN 1 + nF ELSE 0)
      isE   == CharAt(t, pe) \in {"e", "E"}
      eNeg  == CharAt(t, pe + 1) = "-"
      pd    == IF CharAt(t, pe + 1) \in {"-", "+"} THEN pe + 2 ELSE pe + 1
      nE    == IF isE THEN DigitRun(t, pd, FALSE) ELSE 0
      ex    == IF eNeg THEN 0 - DigitsValue(t, pd, nE, FALSE)
               ELSE DigitsValue(t, pd, nE, FALSE)
      mant  == DigitsValue(t, p0, nI, FALSE) * Pow10(nF)
               + DigitsValue(t, p0 + nI + 1, nF, FALSE)
      scale == ex - nF
  IN  IF StartsWith(Substring(t, p0 - 1), InfinityChars) THEN Infinity(sgn)
      ELSE IF nI = 0 /\ nF = 0 THEN NaN
      ELSE IF scale >= 0 THEN Fin(sgn * mant * Pow10(scale), 0)
      ELSE Fin(sgn * mant, 0 - scale)

\* CurrencyChars without the ruble sign and the Cyrillic letters
CurrencyLatinOnly == {"r", "u", "b", "R", "U", "B"}

\* the characters /[₽рубRUB]/gi removes: the ruble sign, the Cyrillic
\* letters er, u, be and the Latin letters r, u, b, in either case
CurrencyChars ==
  {"RUBLE", "cyr_er", "cyr_u", "cyr_be", "CYR_ER", "CYR_U", "CYR_BE",
   "r", "u", "b", "R", "U", "B"}

\* the price of a row from row[5]
ParsePrice(c) ==
  IF c.t = "undef" \/ c.s = <<>> THEN NoPrice
  ELSE IF c.t = "num" THEN parseFloat(c.s)
  ELSE LET priceStr == Trim(ToStr(c))
           cleanedPrice ==
             Trim(RemoveChars(RemoveChars(RemoveChars(priceStr, CurrencyChars),
                                          WhiteSpace), {","}))
           parsedPrice == parseFloat(cleanedPrice)
       IN  IF priceStr # <<>> /\ parsedPrice.k = "fin" THEN parsedPrice ELSE NoPrice

(***************************************************************************)
(* extractUrl.  The hyperlink overlay is a function from <<rowIndex,       *)
(* colIndex>> (the key `${rowIndex}_${colIndex}`) to a non-empty URL.      *)
(***************************************************************************)
Http == <<"h", "t", "t", "p", ":", "/", "/">>

Https == <<"h", "t", "t", "p", "s", ":", "/", "/">>

\* the characters [^\s"')] excludes
UrlStop == WhiteSpace \cup {"\"", "'", ")"}

\* UrlRun that does not stop before the end of the text
UrlRunToEnd(s, p) == IF p > Len(s) THEN 0 ELSE Len(s) - p + 1

\* length of the run of characters of s from position p on that are not in
\* UrlStop
RECURSIVE UrlRun(_, _)
UrlRun(s, p) ==
  IF p > Len(s) \/ s[p] \in UrlStop THEN 0 ELSE 1 + UrlRun(s, p + 1)

\* does /https?:\/\/[^\s"')]+/ match at position p (1-based); the length
\* of the match, 0 when there is none
UrlMatchAt(s, p) ==
  LET rest == SubSeq(s, p, Len(s))
      n    == IF StartsWith(rest, Http) THEN Len(Http)
              ELSE IF StartsWith(rest, Https) THEN Len(Https) ELSE 0
      run  == UrlRun(s, p + n)
  IN  IF n > 0 /\ run > 0 THEN n + run ELSE 0

\* str.match(/(https?:\/\/[^\s"')]+)/): the leftmost match, Null when none
RECURSIVE UrlMatchFrom(_, _)
UrlMatchFrom(s, p) ==
  IF p > Len(s) THEN Null
  ELSE IF UrlMatchAt(s, p) > 0 THEN SubSeq(s, p, p + UrlMatchAt(s, p) - 1)
  ELSE UrlMatchFrom(s, p + 1)

\* extractUrl that looks at the overlay only when the cell text gives no URL
extractUrlTextFirst(hyperlinks, rowIndex, colIndex, cellValue) ==
  LET str == IF cellValue.t = "undef" THEN <<>> ELSE Trim(ToStr(cellValue))
      fromText == IF StartsWith(str, Http) \/ StartsWith(str, Https) THEN str
                  ELSE UrlMatchFrom(str, 1)
  IN  IF fromText # Null THEN fromText
      ELSE IF <<rowIndex, colIndex>> \in DOMAIN hyperlinks
      THEN hyperlinks[<<rowIndex, colIndex>>]
      ELSE Null

extractUrl(hyperlinks, rowIndex, colIndex, cellValue) ==
  IF <<rowIndex, colIndex>> \in DOMAIN hyperlinks
     /\ hyperlinks[<<rowIndex, colIndex>>] # <<>>
  THEN hyperlinks[<<rowIndex, colIndex>>]
  ELSE IF cellValue.t = "undef" \/ cellValue.s = <<>> THEN Null
  ELSE LET str == Trim(ToStr(cellValue))
       IN  IF str = <<>> THEN Null
           ELSE IF StartsWith(str, Http) \/ StartsWith(str, Https) THEN str
           ELSE UrlMatchFrom(str, 1)

(***************************************************************************)
(* processProducts: map every raw row to a record or to null, then filter  *)
(* the nulls out.                                                          *)
(***************************************************************************)
\* row[k]?.trim() throws a TypeError when row[k] is neither a string nor
\* undefined: a number has no trim method
TrimThrows(c) == c.t = "num"

\* the map callback throws for this row
RowThrows(row) == TrimThrows(Cell(row, 0)) \/ TrimThrows(Cell(row, 1))

\* TrimOrNull without its || null: an empty text stays an empty text
TrimOrEmpty(c) == IF c.t = "undef" THEN Null ELSE Trim(c.s)

\* row[k]?.trim() || null, where it does not throw
TrimOrNull(c) ==
  IF c.t = "undef" THEN Null
  ELSE IF Trim(c.s) = <<>> THEN Null ELSE Trim(c.s)

\* the record the map callback builds for one row, before its null test
MapRow(row, index, hyperlinks) ==
  [name        |-> TrimOrNull(Cell(row, 0)),
   brand       |-> TrimOrNull(Cell(row, 1)),
   stock       |-> ParseStock(Cell(row, 4)),
   price       |-> ParsePrice(Cell(row, 5)),
   image_url_1 |-> extractUrl(hyperlinks, index, 6, Cell(row, 6)),
   image_url_2 |-> extractUrl(hyperlinks, index, 7, Cell(row, 7))]

\* RowDropped that keeps a stock of zero
RowDroppedNegativeStock(rec) == rec.name = Null \/ rec.stock < 0

\* RowDropped without its test of the stock
RowDroppedNameOnly(rec) == rec.name = Null

\* if (!name || stock <= 0) return null
RowDropped(rec) == rec.name = Null \/ rec.stock <= 0

\* MapFilterFrom that puts each record in front of the ones before it
RECURSIVE MapFilterReversed(_, _, _)
MapFilterReversed(rows, n, hyperlinks) ==
  IF n > Len(rows) THEN <<>>
  ELSE LET rec == MapRow(rows[n], n - 1, hyperlinks)
       IN  MapFilterReversed(rows, n + 1, hyperlinks)
           \o (IF RowDropped(rec) THEN <<>> ELSE <<rec>>)

\* MapFilterFrom that looks the overlay up with the position of the record
\* in the filtered output
RECURSIVE MapFilterOutputIndex(_, _, _)
MapFilterOutputIndex(rows, n, hyperlinks) ==
  IF n > Len(rows) THEN <<>>
  ELSE LET index == Cardinality({m \in 1..(n - 1) :
                                   ~RowDropped(MapRow(rows[m], m - 1, hyperlinks))})
           rec   == MapRow(rows[n], index, hyperlinks)
       IN  (IF RowDropped(rec) THEN <<>> ELSE <<rec>>)
           \o MapFilterOutputIndex(rows, n + 1, hyperlinks)

\* rows.map(...).filter(product => product !== null), from row n (1-based) on
RECURSIVE MapFilterFrom(_, _, _)
MapFilterFrom(rows, n, hyperlinks) ==
  IF n > Len(rows) THEN <<>>
  ELSE LET rec == MapRow(rows[n], n - 1, hyperlinks)
       IN  (IF RowDropped(rec) THEN <<>> ELSE <<rec>>)
           \o MapFilterFrom(rows, n + 1, hyperlinks)

processProducts(rows, hyperlinks) == MapFilterFrom(rows, 1, hyperlinks)

\* processProducts throws instead of returning: the callback throws for one
\* of the rows
processProductsThrows(rows) == \E n \in 1..Len(rows) : RowThrows(rows[n])

(***************************************************************************)
(* The spreadsheet.  A sheet is the rows 2.. of the range A2:J100, each a  *)
(* sequence of cells for the columns A..H (I and J are never consumed); a  *)
(* cell has the text it displays and the hyperlink attached to it (Null    *)
(* when it has none).                                                      *)
(***************************************************************************)
SheetCell(text, link) == [text |-> text, link |-> link]

Blank == SheetCell(<<>>, Null)

\* a sheet row from its name, brand, stock, price and the two image cells
SheetRow(name, brand, stock, price, g, h) ==
  <<SheetCell(name, Null), SheetCell(brand, Null), Blank, Blank,
    SheetCell(stock, Null), SheetCell(price, Null), g, h>>

\* the rows a sheet of the model is made of: two that the normalizer keeps
\* (one with a linked image cell, one with a name to trim and a URL as cell
\* text) and one for each reason to drop a row: a blank name, a stock of
\* zero, a negative stock, a stock that is no number
SheetRowPool ==
  { SheetRow(<<"A">>, <<>>, <<"5">>, <<"RUBLE", "1", ",", "2", "0", "0">>,
             SheetCell(<<"p", "i", "c">>, <<"h", "t", "t", "p", ":", "/", "/", "h">>), Blank),
    SheetRow(<<" ", "B", " ">>, <<"x">>, <<"2">>, <<>>,
             SheetCell(<<"h", "t", "t", "p", ":", "/", "/", "g">>, Null), Blank),
    SheetRow(<<" ", " ">>, <<>>, <<"3">>, <<>>, Blank, Blank),
    SheetRow(<<"C">>, <<>>, <<"0">>, <<"7">>, Blank, Blank),
    SheetRow(<<"D">>, <<>>, <<"-", "1">>, <<>>, Blank, Blank),
    SheetRow(<<"F">>, <<>>, <<"n", "/", "a">>, <<>>, Blank, Blank) }

Sheets == UNION {[1..n -> SheetRowPool] : n \in 0..MaxRows}

\* the values read of one sheet row: the displayed texts, without the
\* empty cells that trail the row
RECURSIVE ValuesRow(_)
ValuesRow(srow) ==
  IF srow = <<>> THEN <<>>
  ELSE IF srow[Len(srow)].text = <<>> THEN ValuesRow(SubSeq(srow, 1, Len(srow) - 1))
  ELSE [c \in 1..Len(srow) |-> StrCell(srow[c].text)]

\* valuesResponse.data.values || []: one raw row per sheet row, without the
\* empty rows that trail the range
RECURSIVE ValuesOf(_)
ValuesOf(sh) ==
  IF sh = <<>> THEN <<>>
  ELSE IF ValuesRow(sh[Len(sh)]) = <<>> THEN ValuesOf(SubSeq(sh, 1, Len(sh) - 1))
  ELSE [r \in 1..Len(sh) |-> ValuesRow(sh[r])]

\* the hyperlink overlay readSheetData builds from the grid data: an entry
\* for every cell of column 6 or 7 that has a hyperlink, keyed by the row
\* index relative to A2 and the column index
HyperlinkKeys(grid) ==
  { k \in (0..(Len(grid) - 1)) \X {6, 7} :
      /\ k[2] + 1 <= Len(grid[k[1] + 1])
      /\ grid[k[1] + 1][k[2] + 1].link # Null
      /\ grid[k[1] + 1][k[2] + 1].link # <<>> }

\* const hyperlinks = {}
NoHyperlinks == [k \in {} |-> <<>>]

HyperlinksOf(grid) ==
  [k \in HyperlinkKeys(grid) |-> grid[k[1] + 1][k[2] + 1].link]

(***************************************************************************)
(* The runs.  "http" is a request to the POST handler of route.ts, "job"   *)
(* an invocation of the sync script.                                       *)
(***************************************************************************)
HttpRuns == {"http"}

JobRuns == {"job"}

Runs == HttpRuns \cup JobRuns

IsHttp(p) == p \in HttpRuns

\* the number of sheet rows of the range A2:J100
RangeRows == 99

\* a chunk size of half the range
HalfRange == RangeRows \div 2

\* const batchSize = 100
batchSize == 100

Bearer == <<"B", "e", "a", "r", "e", "r", " ">>

\* the values of the Authorization header a request is sent with: absent,
\* the secret as a bearer token, another token, a longer token, the scheme
\* in lower case, the bare secret
HeaderPool ==
  { Null, Bearer \o <<"k">>, Bearer \o <<"x">>, Bearer \o <<"k", "k">>,
    <<"b", "e", "a", "r", "e", "r", " ">> \o <<"k">>, <<"k">> }

\* SYNC_SECRET_KEY: unset, set to the empty string, set
SecretPool == {Null, <<>>, <<"k">>}

\* GOOGLE_SHEET_ID, NEXT_PUBLIC_SUPABASE_URL and SUPABASE_SERVICE_ROLE_KEY as
\* a run found them.  Reading the environment has no effect, so the model
\* reads a value when the code first tests it: a value behind a failed test
\* stays "unread".
Env(sheetId, url, key) == [sheetId |-> sheetId, url |-> url, key |-> key]

EnvPool ==
  { Env("unset", "unread", "unread"), Env("set", "unset", "unread"),
    Env("set", "set", "unset"), Env("set", "set", "set") }

NoEnv == Env("unread", "unread", "unread")

\* GOOGLE_CREDENTIALS_JSON: unset, base64 of a JSON document, anything else;
\* GOOGLE_CREDENTIALS_PATH: unset, no file there, a JSON file, another file.
\* "present" is a value that is set and whose content was not looked at (the
\* path when the inline value is used, either before initializeSheetsAPI).
CredEnv(json, path) == [json |-> json, path |-> path]

CredEnvPool ==
  {CredEnv(j, f) : j \in {"valid", "malformed"}, f \in {"absent", "present"}}
  \cup {CredEnv("absent", f) : f \in {"absent", "missing", "valid", "malformed"}}

\* what the module code of the job sees of the two sources: set or not
CredPresencePool ==
  {CredEnv(j, f) : j \in {"absent", "present"}, f \in {"absent", "present"}}

\* ce tells more about the sources pres tells of
Refines(ce, pres) ==
  /\ (ce.json = "absent") = (pres.json = "absent")
  /\ (ce.path = "absent") = (pres.path = "absent")

NoCredEnv == CredEnv("unread", "unread")

NoResult ==
  [status |-> 0, success |-> FALSE, error |-> "", batch |-> 0, count |-> 0 - 1,
   exit |-> 0 - 1]

\* NextResponse.json({success: false, error}, {status})
HttpError(status, error, batch) ==
  [status |-> status, success |-> FALSE, error |-> error, batch |-> batch,
   count |-> 0 - 1, exit |-> 0 - 1]

\* NextResponse.json({success: true, count})
HttpOk(count) ==
  [status |-> 200, success |-> TRUE, error |-> "", batch |-> 0, count |-> count,
   exit |-> 0 - 1]

\* the end of the job's process: the exit code and the error it logged
JobExit(code, error, batch) ==
  [status |-> 0, success |-> code = 0, error |-> error, batch |-> batch,
   count |-> 0 - 1, exit |-> code]

VARIABLES
  sheet,        \* the spreadsheet's data rows
  table,        \* the products table: a set of [id, rec]
  pc,           \* the step each run has reached
  authHeader,   \* request.headers.get('authorization')
  secret,       \* process.env.SYNC_SECRET_KEY as the handler read it
  cfg,          \* the required environment values as the run read them
  credEnv,      \* the credential sources initializeSheetsAPI has to use
  credSource,   \* the source the credentials were taken from
  rows,         \* valuesResponse.data.values || []
  hyperlinks,   \* the hyperlink overlay
  products,     \* the normalizer's output
  ids,          \* the ids deleteAllProducts fetched
  i,            \* the loop index of insertProducts
  inserted,     \* number of records this run has inserted
  calls,        \* the calls this run has issued, each with its outcome
  before,       \* the table as it was when the run started
  result,       \* the response of the handler, the exit of the job
  page          \* the state of the catalog page (Home)

vars ==
  <<sheet, table, pc, authHeader, secret, cfg, credEnv, credSource, rows,
    hyperlinks, products, ids, i, inserted, calls, before, result, page>>

\* the value 'all' of the brand select
All == <<"a", "l", "l">>

\* the useState initial values of Home
NewPage ==
  [loading          |-> TRUE,
   products         |-> <<>>,
   filteredProducts |-> <<>>,
   selectedBrand    |-> All,
   selectedPrice    |-> "all",
   brands           |-> {}]

\* a record of the table the sync did not write
LegacyRecord ==
  [id |-> 0,
   rec |-> [name |-> <<"Z">>, brand |-> Null, stock |-> 1, price |-> NoPrice,
            image_url_1 |-> Null, image_url_2 |-> Null]]

InitTables == {{}, {LegacyRecord}}

Init ==
  /\ sheet \in Sheets
  /\ table \in InitTables
  /\ pc = [p \in Runs |-> "idle"]
  /\ authHeader = [p \in Runs |-> Null]
  /\ secret = [p \in Runs |-> Null]
  /\ cfg = [p \in Runs |-> NoEnv]
  /\ credEnv = [p \in Runs |-> NoCredEnv]
  /\ credSource = [p \in Runs |-> "none"]
  /\ rows = [p \in Runs |-> <<>>]
  /\ hyperlinks = [p \in Runs |-> NoHyperlinks]
  /\ products = [p \in Runs |-> <<>>]
  /\ ids = [p \in Runs |-> {}]
  /\ i = [p \in Runs |-> 0]
  /\ inserted = [p \in Runs |-> 0]
  /\ calls = [p \in Runs |-> <<>>]
  /\ before = [p \in Runs |-> {}]
  /\ result = [p \in Runs |-> NoResult]
  /\ page = NewPage

AllIdle == \A q \in Runs : pc[q] = "idle"

\* Fail in which the job logs the error and ends with exit code 0
FailExitZero(p, error, batch) ==
  /\ pc' = [pc EXCEPT ![p] = "failed"]
  /\ result' = [result EXCEPT ![p] =
                  IF IsHttp(p) THEN HttpError(500, error, batch)
                  ELSE JobExit(0, error, batch)]

\* the catch block of POST (500 with the error's message) and of sync
\* (process.exit(1)); an exception of the job's module code ends the process
\* with exit code 1 as well
Fail(p, error, batch) ==
  /\ pc' = [pc EXCEPT ![p] = "failed"]
  /\ result' = [result EXCEPT ![p] =
                  IF IsHttp(p) THEN HttpError(500, error, batch)
                  ELSE JobExit(1, error, batch)]

\* an early return of POST with a response
Reject(p, status, error) ==
  /\ pc' = [pc EXCEPT ![p] = "rejected"]
  /\ result' = [result EXCEPT ![p] = HttpError(status, error, 0)]

Goto(p, step) ==
  /\ pc' = [pc EXCEPT ![p] = step]
  /\ UNCHANGED result

\* the run issues a call to the sheets API or to the table; ok is whether
\* the call succeeds
Call(p, name, ok) ==
  calls' = [calls EXCEPT ![p] = Append(@, [name |-> name, ok |-> ok])]

(***************************************************************************)
(* POST, up to the call of initializeSheetsAPI: the check of the           *)
(* Authorization header against SYNC_SECRET_KEY, then the required         *)
(* environment values.                                                     *)
(***************************************************************************)
\* SecretMissing that takes an empty secret for a configured one
SecretUnsetOnly(sk) == sk = Null

\* if (!SYNC_SECRET_KEY)
SecretMissing(sk) == sk = Null \/ sk = <<>>

\* Authorized that lets a request without the header pass
AuthorizedWhenAbsent(h, sk) ==
  h = Null \/ (StartsWith(h, Bearer) /\ Substring(h, 7) = sk)

\* Authorized that does not compare the token
AuthorizedAnyToken(h, sk) == h # Null /\ StartsWith(h, Bearer)

\* the header passes both tests of POST: it starts with 'Bearer ' and the
\* rest of it is the secret
Authorized(h, sk) ==
  /\ h # Null
  /\ h # <<>>
  /\ StartsWith(h, Bearer)
  /\ Substring(h, 7) = sk

\* the message of the first required environment value that is missing,
\* "" when none is
MissingEnv(e) ==
  IF e.sheetId # "set" THEN "GOOGLE_SHEET_ID environment variable is required"
  ELSE IF e.url # "set" THEN "NEXT_PUBLIC_SUPABASE_URL environment variable is required"
  ELSE IF e.key # "set" THEN "SUPABASE_SERVICE_ROLE_KEY environment variable is required"
  ELSE ""

POST(p) ==
  /\ IsHttp(p)
  /\ pc[p] = "idle"
  /\ \E h \in HeaderPool, sk \in SecretPool, e \in EnvPool :
       /\ authHeader' = [authHeader EXCEPT ![p] = h]
       /\ secret' = [secret EXCEPT ![p] = sk]
       /\ IF SecretMissing(sk)
          THEN Reject(p, 500, "Server configuration error") /\ UNCHANGED cfg
          ELSE IF ~Authorized(h, sk)
          THEN Reject(p, 401, "Unauthorized") /\ UNCHANGED cfg
          ELSE /\ cfg' = [cfg EXCEPT ![p] = e]
               /\ IF MissingEnv(e) # ""
                  THEN Fail(p, MissingEnv(e), 0)
                  ELSE Goto(p, "init")
  /\ before' = [before EXCEPT ![p] = table]
  /\ UNCHANGED <<page, sheet, table, credEnv, credSource, rows, hyperlinks, products,
                 ids, i, inserted, calls>>

(***************************************************************************)
(* The module code of the job: it reads the environment, validates it and  *)
(* calls sync.  An exception here ends the process.                        *)
(***************************************************************************)
JobStart(p) ==
  /\ ~IsHttp(p)
  /\ pc[p] = "idle"
  /\ \E e \in EnvPool, ce \in CredPresencePool :
       IF e.sheetId # "set"
       THEN /\ cfg' = [cfg EXCEPT ![p] = e]
            /\ Fail(p, MissingEnv(e), 0)
            /\ UNCHANGED credEnv
       ELSE /\ credEnv' = [credEnv EXCEPT ![p] = ce]
            /\ IF ce.json = "absent" /\ ce.path = "absent"
               THEN /\ cfg' = [cfg EXCEPT ![p] = Env("set", "unread", "unread")]
                    /\ Fail(p, "Either GOOGLE_CREDENTIALS_JSON or GOOGLE_CREDENTIALS_PATH environment variable is required", 0)
               ELSE /\ cfg' = [cfg EXCEPT ![p] = e]
                    /\ IF MissingEnv(e) # ""
                       THEN Fail(p, MissingEnv(e), 0)
                       ELSE Goto(p, "init")
  /\ before' = [before EXCEPT ![p] = table]
  /\ UNCHANGED <<page, sheet, table, authHeader, secret, credSource, rows, hyperlinks,
                 products, ids, i, inserted, calls>>

(***************************************************************************)
(* initializeSheetsAPI: the credentials from the inline value when it is   *)
(* set, else from the file, then the client.                               *)
(***************************************************************************)
\* CredentialSource that falls back to the file when the inline value
\* cannot be parsed
CredentialSourceFallback(ce) ==
  IF ce.json = "valid" THEN "inline"
  ELSE IF ce.path \in {"valid", "present"} THEN "file" ELSE ""

\* the source the credentials are taken from, "" when the function throws
CredentialSource(ce) ==
  IF ce.json # "absent"
  THEN IF ce.json = "valid" THEN "inline" ELSE ""
  ELSE IF ce.path = "valid" THEN "file" ELSE ""

\* the message of the error initializeSheetsAPI throws
CredentialError(ce) ==
  IF ce.json # "absent" THEN "Failed to parse GOOGLE_CREDENTIALS_JSON"
  ELSE IF ce.path = "missing" THEN "Credentials file not found"
  ELSE IF ce.path = "malformed" THEN "JSON.parse: SyntaxError"
  ELSE "No credentials provided. Set either GOOGLE_CREDENTIALS_JSON or GOOGLE_CREDENTIALS_PATH"

LoadCredentials(p) ==
  /\ pc[p] = "init"
  /\ \E ce \in CredEnvPool :
       /\ IsHttp(p) \/ Refines(ce, credEnv[p])
       /\ credEnv' = [credEnv EXCEPT ![p] = ce]
       /\ IF CredentialSource(ce) # ""
          THEN /\ credSource' = [credSource EXCEPT ![p] = CredentialSource(ce)]
               /\ Goto(p, "creds-parsed")
          ELSE /\ Fail(p, CredentialError(ce), 0)
               /\ UNCHANGED credSource
  /\ UNCHANGED <<page, sheet, table, authHeader, secret, cfg, rows, hyperlinks,
                 products, ids, i, inserted, calls, before>>

\* await auth.getClient() rejects
GetClientFailed(p) ==
  /\ Fail(p, "auth.getClient failed", 0)
  /\ UNCHANGED credEnv

\* await auth.getClient(); the sources are not read again once
\* initializeSheetsAPI has returned
GetClient(p) ==
  /\ pc[p] = "creds-parsed"
  /\ \E ok \in BOOLEAN :
       /\ Call(p, "auth.getClient", ok)
       /\ IF ok
          THEN /\ Goto(p, "credentials-loaded")
               /\ credEnv' = [credEnv EXCEPT ![p] = NoCredEnv]
          ELSE GetClientFailed(p)
  /\ UNCHANGED <<page, sheet, table, authHeader, secret, cfg, credSource, rows,
                 hyperlinks, products, ids, i, inserted, before>>

(***************************************************************************)
(* readSheetData: the values read, then the grid read.  A rejected read    *)
(* throws out of readSheetData.                                            *)
(***************************************************************************)
\* ReadValuesFailed that goes on with no rows
ReadValuesIgnored(p) ==
  /\ rows' = [rows EXCEPT ![p] = <<>>]
  /\ Goto(p, "values-read")

ReadValuesFailed(p) ==
  /\ Fail(p, "spreadsheets.values.get failed", 0)
  /\ UNCHANGED rows

ReadValues(p) ==
  /\ pc[p] = "credentials-loaded"
  /\ \E ok \in BOOLEAN :
       /\ Call(p, "values.get", ok)
       /\ IF ok
          THEN /\ rows' = [rows EXCEPT ![p] = ValuesOf(sheet)]
               /\ Goto(p, "values-read")
          ELSE ReadValuesFailed(p)
  /\ UNCHANGED <<page, sheet, table, authHeader, secret, cfg, credEnv, credSource,
                 hyperlinks, products, ids, i, inserted, before>>

\* ReadGridFailed that reads the sheet again
ReadGridRetried(p) ==
  /\ Goto(p, "credentials-loaded")
  /\ UNCHANGED hyperlinks

ReadGridFailed(p) ==
  /\ Fail(p, "spreadsheets.get failed", 0)
  /\ UNCHANGED hyperlinks

ReadGrid(p) ==
  /\ pc[p] = "values-read"
  /\ \E ok \in BOOLEAN :
       /\ Call(p, "spreadsheets.get", ok)
       /\ IF ok
          THEN /\ hyperlinks' = [hyperlinks EXCEPT ![p] = HyperlinksOf(sheet)]
               /\ Goto(p, "read-complete")
          ELSE ReadGridFailed(p)
  /\ UNCHANGED <<page, sheet, table, authHeader, secret, cfg, credEnv, credSource,
                 rows, products, ids, i, inserted, before>>

\* Normalize in which the job calls processProducts(rows), without the
\* overlay (the parameter's default is the empty overlay)
NormalizeJobNoOverlay(p) ==
  /\ pc[p] = "read-complete"
  /\ products' = [products EXCEPT ![p] =
                    processProducts(rows[p], IF IsHttp(p) THEN hyperlinks[p]
                                             ELSE NoHyperlinks)]
  /\ Goto(p, "normalized")
  /\ UNCHANGED <<page, sheet, table, authHeader, secret, cfg, credEnv, credSource,
                 rows, hyperlinks, ids, i, inserted, calls, before>>

\* const products = processProducts(rows, hyperlinks); an exception goes to
\* the caller's catch block
Normalize(p) ==
  /\ pc[p] = "read-complete"
  /\ IF processProductsThrows(rows[p])
     THEN /\ Fail(p, "trim is not a function", 0)
          /\ UNCHANGED products
     ELSE /\ products' = [products EXCEPT ![p] =
                           processProducts(rows[p], hyperlinks[p])]
          /\ Goto(p, "normalized")
  /\ UNCHANGED <<page, sheet, table, authHeader, secret, cfg, credEnv, credSource,
                 rows, hyperlinks, ids, i, inserted, calls, before>>

(***************************************************************************)
(* The products table.  The storage layer generates the id of a new        *)
(* record; ids are opaque, so the model takes the smallest numbers that    *)
(* are neither in the table nor held by a run.                             *)
(***************************************************************************)
\* supabase.from('products').select('id')
SelectIds(tbl) == {r.id : r \in tbl}

\* DeleteIn that deletes one of the ids only
DeleteFirstOnly(tbl, idset) ==
  {r \in tbl : \E o \in idset : o < r.id}

\* DeleteIn without its filter: every record is deleted
DeleteEvery(tbl, idset) == {}

\* DeleteIn with the filter inverted
DeleteNotIn(tbl, idset) == {r \in tbl : r.id \in idset}

\* supabase.from('products').delete().in('id', idset)
DeleteIn(tbl, idset) == {r \in tbl : r.id \notin idset}

\* the smallest number from k on that is not in used
NextFree(used, k) ==
  CHOOSE f \in k..(k + Cardinality(used)) :
    f \notin used /\ \A g \in k..(f - 1) : g \in used

\* the n smallest numbers that are not in used, in their order (the first
\* half, then the second half: the recursion stays shallow)
RECURSIVE FreshIds(_, _)
FreshIds(used, n) ==
  IF n = 0 THEN <<>>
  ELSE IF n = 1 THEN <<NextFree(used, 0)>>
  ELSE LET h == n \div 2
           a == FreshIds(used, h)
       IN  a \o FreshIds(used \cup {a[k] : k \in 1..h}, n - h)

\* supabase.from('products').insert(batch)
InsertRows(tbl, batch, used) ==
  LET fresh == FreshIds(used, Len(batch))
  IN  tbl \cup {[id |-> fresh[k], rec |-> batch[k]] : k \in 1..Len(batch)}

\* what a reader of the catalog gets at this moment:
\* supabase.from('products').select('*').gt('stock', 0) (the order of the
\* rows left aside)
fetchProducts(tbl) == {r \in tbl : r.rec.stock > 0}

\* the ids a new record cannot get
UsedIds == SelectIds(table) \cup UNION {ids[q] : q \in Runs}

\* Slice that stops one element early
SliceShort(seq, from, to) == SubSeq(seq, from + 1, Min(to, Len(seq)) - 1)

\* products.slice(i, i + batchSize)
Slice(seq, from, to) == SubSeq(seq, from + 1, Min(to, Len(seq)))

(***************************************************************************)
(* deleteAllProducts: fetch every id, then delete the fetched ids in one   *)
(* call; no delete call when the fetch returned nothing.                   *)
(***************************************************************************)
\* if (fetchError) throw
FetchFailed(p) ==
  /\ Fail(p, "Failed to fetch products", 0)
  /\ UNCHANGED ids

FetchIds(p) ==
  /\ pc[p] = "normalized"
  /\ \E ok \in BOOLEAN :
       /\ Call(p, "select", ok)
       /\ IF ok
          THEN /\ ids' = [ids EXCEPT ![p] = SelectIds(table)]
               /\ Goto(p, IF SelectIds(table) = {} THEN "deleted" ELSE "ids-fetched")
          ELSE FetchFailed(p)
  /\ UNCHANGED <<page, sheet, table, authHeader, secret, cfg, credEnv, credSource,
                 rows, hyperlinks, products, i, inserted, before>>

\* DeleteFailed that goes on to the insert
DeleteFailedIgnored(p) ==
  /\ Goto(p, "deleted")
  /\ UNCHANGED <<table, ids>>

\* if (error) throw
DeleteFailed(p) ==
  /\ Fail(p, "Failed to delete products", 0)
  /\ UNCHANGED <<table, ids>>

DeleteFetched(p) ==
  /\ pc[p] = "ids-fetched"
  /\ \E ok \in BOOLEAN :
       /\ Call(p, "delete", ok)
       /\ IF ok
          THEN /\ table' = DeleteIn(table, ids[p])
               /\ ids' = [ids EXCEPT ![p] = {}]
               /\ Goto(p, "deleted")
          ELSE DeleteFailed(p)
  /\ UNCHANGED <<page, sheet, authHeader, secret, cfg, credEnv, credSource, rows,
                 hyperlinks, products, i, inserted, before>>

(***************************************************************************)
(* insertProducts: nothing to do for an empty batch; otherwise one insert  *)
(* call per chunk of batchSize records.                                    *)
(***************************************************************************)
\* InsertNone without the early return: an insert call with the empty batch
InsertNoneCallsInsert(p) ==
  /\ pc[p] = "deleted"
  /\ Len(products[p]) = 0
  /\ Call(p, "insert", TRUE)
  /\ Goto(p, "inserted")
  /\ UNCHANGED <<page, sheet, table, authHeader, secret, cfg, credEnv, credSource,
                 rows, hyperlinks, products, ids, i, inserted, before>>

\* if (products.length === 0) return
InsertNone(p) ==
  /\ pc[p] = "deleted"
  /\ Len(products[p]) = 0
  /\ Goto(p, "inserted")
  /\ UNCHANGED <<page, sheet, table, authHeader, secret, cfg, credEnv, credSource,
                 rows, hyperlinks, products, ids, i, inserted, calls, before>>

\* InsertFailed that goes on as if the chunk were inserted
InsertFailedIgnored(p) ==
  /\ Goto(p, "inserted")
  /\ UNCHANGED <<table, inserted, i>>

\* InsertFailed that puts the deleted records back
InsertFailedRollback(p) ==
  /\ Fail(p, "Failed to insert products batch", (i[p] \div batchSize) + 1)
  /\ table' = before[p]
  /\ UNCHANGED <<inserted, i>>

\* InsertFailed that counts the chunks from 0
InsertFailedZeroBased(p) ==
  /\ Fail(p, "Failed to insert products batch", i[p] \div batchSize)
  /\ UNCHANGED <<table, inserted, i>>

\* if (error) throw, with the number of the chunk
InsertFailed(p) ==
  /\ Fail(p, "Failed to insert products batch", (i[p] \div batchSize) + 1)
  /\ UNCHANGED <<table, inserted, i>>

InsertBatch(p) ==
  /\ pc[p] \in {"deleted", "inserting"}
  /\ i[p] < Len(products[p])
  /\ LET batch == Slice(products[p], i[p], i[p] + batchSize)
     IN  \E ok \in BOOLEAN :
           /\ Call(p, "insert", ok)
           /\ IF ok
              THEN /\ table' = InsertRows(table, batch, UsedIds)
                   /\ inserted' = [inserted EXCEPT ![p] = @ + Len(batch)]
                   /\ i' = [i EXCEPT ![p] = @ + batchSize]
                   /\ Goto(p, IF i[p] + batchSize < Len(products[p])
                              THEN "inserting" ELSE "inserted")
              ELSE InsertFailed(p)
  /\ UNCHANGED <<page, sheet, authHeader, secret, cfg, credEnv, credSource, rows,
                 hyperlinks, products, ids, before>>

(***************************************************************************)
(* The end of a run: the handler answers {success: true, count}, the job's *)
(* process ends with exit code 0.                                          *)
(***************************************************************************)
Finish(p) ==
  /\ pc[p] = "inserted"
  /\ pc' = [pc EXCEPT ![p] = "done"]
  /\ result' = [result EXCEPT ![p] =
                  IF IsHttp(p) THEN HttpOk(Len(products[p])) ELSE JobExit(0, "", 0)]
  /\ UNCHANGED <<page, sheet, table, authHeader, secret, cfg, credEnv, credSource,
                 rows, hyperlinks, products, ids, i, inserted, calls, before>>

\* the response is sent or the process is gone: the run's locals are dropped
Return(p) ==
  /\ pc[p] \in {"done", "failed", "rejected"}
  /\ pc' = [pc EXCEPT ![p] = "idle"]
  /\ authHeader' = [authHeader EXCEPT ![p] = Null]
  /\ secret' = [secret EXCEPT ![p] = Null]
  /\ cfg' = [cfg EXCEPT ![p] = NoEnv]
  /\ credEnv' = [credEnv EXCEPT ![p] = NoCredEnv]
  /\ credSource' = [credSource EXCEPT ![p] = "none"]
  /\ rows' = [rows EXCEPT ![p] = <<>>]
  /\ hyperlinks' = [hyperlinks EXCEPT ![p] = NoHyperlinks]
  /\ products' = [products EXCEPT ![p] = <<>>]
  /\ ids' = [ids EXCEPT ![p] = {}]
  /\ i' = [i EXCEPT ![p] = 0]
  /\ inserted' = [inserted EXCEPT ![p] = 0]
  /\ calls' = [calls EXCEPT ![p] = <<>>]
  /\ before' = [before EXCEPT ![p] = {}]
  /\ result' = [result EXCEPT ![p] = NoResult]
  /\ UNCHANGED <<page, sheet, table>>

\* the spreadsheet is edited between runs
EditSheet ==
  /\ AllIdle
  /\ \E sh \in Sheets : sh # sheet /\ sheet' = sh
  /\ UNCHANGED <<page, table, pc, authHeader, secret, cfg, credEnv, credSource, rows,
                 hyperlinks, products, ids, i, inserted, calls, before, result>>

(***************************************************************************)
(* Spec: runs one after the other (each invocation is sequential and the   *)
(* next starts when no other is in progress).                              *)
(***************************************************************************)
Step(p) ==
  \/ LoadCredentials(p)
  \/ GetClient(p)
  \/ ReadValues(p)
  \/ ReadGrid(p)
  \/ Normalize(p)
  \/ FetchIds(p)
  \/ DeleteFetched(p)
  \/ InsertNone(p)
  \/ InsertBatch(p)
  \/ Finish(p)
  \/ Return(p)

Next ==
  \/ \E p \in Runs : AllIdle /\ POST(p)
  \/ \E p \in Runs : AllIdle /\ JobStart(p)
  \/ \E p \in Runs : Step(p)
  \/ EditSheet

Spec == Init /\ [][Next]_vars

(***************************************************************************)
(* SpecConcurrent: two invocations, a request and a job, over the same     *)
(* sheet, each started once and at any time: nothing in the code keeps a   *)
(* run from starting while another is in progress.                         *)
(***************************************************************************)
ConcSheets == UNION {[1..n -> SheetRowPool] : n \in 0..MaxConcRows}

ConcInit == Init /\ sheet \in ConcSheets

ConcStep(p) ==
  \/ LoadCredentials(p)
  \/ GetClient(p)
  \/ ReadValues(p)
  \/ ReadGrid(p)
  \/ Normalize(p)
  \/ FetchIds(p)
  \/ DeleteFetched(p)
  \/ InsertNone(p)
  \/ InsertBatch(p)
  \/ Finish(p)

ConcNext ==
  \/ \E p \in Runs : POST(p)
  \/ \E p \in Runs : JobStart(p)
  \/ \E p \in Runs : ConcStep(p)

SpecConcurrent == ConcInit /\ [][ConcNext]_vars

(***************************************************************************)
(* SpecWriter: insertProducts alone, called with a batch of any length up  *)
(* to MaxProducts on the table deleteAllProducts left empty.  (Within a    *)
(* sync run the batch has at most 99 records, one chunk.)                  *)
(***************************************************************************)
\* the k-th record of a batch; the stock tells the records apart
WriterRecord(k) ==
  [name |-> <<"A">>, brand |-> Null, stock |-> k, price |-> NoPrice,
   image_url_1 |-> Null, image_url_2 |-> Null]

WriterBatch(n) == [k \in 1..n |-> WriterRecord(k)]

WriterInit ==
  \E p \in Runs, n \in 0..MaxProducts :
    /\ sheet = <<>>
    /\ table = {}
    /\ pc = [q \in Runs |-> IF q = p THEN "deleted" ELSE "idle"]
    /\ authHeader = [q \in Runs |-> Null]
    /\ secret = [q \in Runs |-> Null]
    /\ cfg = [q \in Runs |-> NoEnv]
    /\ credEnv = [q \in Runs |-> NoCredEnv]
    /\ credSource = [q \in Runs |-> "none"]
    /\ rows = [q \in Runs |-> <<>>]
    /\ hyperlinks = [q \in Runs |-> NoHyperlinks]
    /\ products = [q \in Runs |-> IF q = p THEN WriterBatch(n) ELSE <<>>]
    /\ ids = [q \in Runs |-> {}]
    /\ i = [q \in Runs |-> 0]
    /\ inserted = [q \in Runs |-> 0]
    /\ calls = [q \in Runs |-> <<>>]
    /\ before = [q \in Runs |-> {}]
    /\ result = [q \in Runs |-> NoResult]
    /\ page = NewPage

WriterNext ==
  \E p \in Runs :
    \/ InsertNone(p)
    \/ InsertBatch(p)
    \/ Finish(p)

SpecWriter == WriterInit /\ [][WriterNext]_vars

(***************************************************************************)
(* SpecReplace: deleteAllProducts and insertProducts, called with a batch  *)
(* of any length up to MaxProducts on a table that is empty or not.        *)
(***************************************************************************)
ReplaceInit ==
  \E p \in Runs, n \in 0..MaxProducts, tbl \in InitTables :
    /\ sheet = <<>>
    /\ table = tbl
    /\ pc = [q \in Runs |-> IF q = p THEN "normalized" ELSE "idle"]
    /\ authHeader = [q \in Runs |-> Null]
    /\ secret = [q \in Runs |-> Null]
    /\ cfg = [q \in Runs |-> NoEnv]
    /\ credEnv = [q \in Runs |-> NoCredEnv]
    /\ credSource = [q \in Runs |-> "none"]
    /\ rows = [q \in Runs |-> <<>>]
    /\ hyperlinks = [q \in Runs |-> NoHyperlinks]
    /\ products = [q \in Runs |-> IF q = p THEN WriterBatch(n) ELSE <<>>]
    /\ ids = [q \in Runs |-> {}]
    /\ i = [q \in Runs |-> 0]
    /\ inserted = [q \in Runs |-> 0]
    /\ calls = [q \in Runs |-> <<>>]
    /\ before = [q \in Runs |-> IF q = p THEN tbl ELSE {}]
    /\ result = [q \in Runs |-> NoResult]
    /\ page = NewPage

ReplaceNext ==
  \E p \in Runs :
    \/ FetchIds(p)
    \/ DeleteFetched(p)
    \/ InsertNone(p)
    \/ InsertBatch(p)
    \/ Finish(p)

SpecReplace == ReplaceInit /\ [][ReplaceNext]_vars

(***************************************************************************)
(* SpecNormalizer: processProducts alone, applied to what readSheetData    *)
(* returns for a sheet: a sheet of rows of NormBasePool in which one row   *)
(* may be any row of NormRowPool, the rows that vary one cell at a time,   *)
(* and one number cell of that row may arrive as a number.                 *)
(***************************************************************************)
\* the texts of column A: a name, a name to trim, white space only, a
\* number, empty
NamePool ==
  { <<"A">>,
    <<" ", "B", " ">>,
    <<" ", " ">>,
    <<" ", "\t">>,
    <<"7">>,
    <<>> }

\* the texts of column B: a brand, a brand to trim, white space only, a
\* number
BrandPool ==
  { <<"x">>,
    <<" ", "y", " ">>,
    <<" ">>,
    <<"1", "2">> }

\* the texts of column E: integers, zero, negative, no number, a number
\* followed by text, a fraction, white space in front, hexadecimal, signed,
\* an exponent, empty
StockPool ==
  { <<"5">>,
    <<"0">>,
    <<"-", "1">>,
    <<"n", "/", "a">>,
    <<"5", " ", "p", "c", "s">>,
    <<"2", ".", "9">>,
    <<"0", ".", "9">>,
    <<" ", "7">>,
    <<"0", "x", "1", "0">>,
    <<"+", "3">>,
    <<"1", "e", "3">>,
    <<"-", "0">>,
    <<>> }

\* the texts of column F: the ruble formats, plain numbers, negative
\* numbers, text, a decimal comma, an exponent, Infinity, empty
PricePool ==
  { <<"RUBLE", "2", "7", ",", "0", "0", "0", ".", "0", "0">>,
    <<"2", "7", "0", "0", "0">>,
    <<"1", " ", "2", "0", "0", " ", "cyr_er", "cyr_u", "cyr_be">>,
    <<"5">>,
    <<"0">>,
    <<"-", "5">>,
    <<"-", "0", ".", "5">>,
    <<"a", "b", "c">>,
    <<"1", ",", "5">>,
    <<".", "5">>,
    <<"1", "e", "3">>,
    <<"I", "n", "f", "i", "n", "i", "t", "y">>,
    <<"-">>,
    <<"cyr_er", "cyr_u", "cyr_be">>,
    <<" ">>,
    <<>> }

\* "see https://example.com/img.jpg for details"
SeeUrlText ==
  <<"s", "e", "e", " ", "h", "t", "t", "p", "s", ":", "/", "/", "e", "x", "a", "m", "p", "l", "e", ".", "c", "o", "m", "/", "i", "m", "g", ".", "j", "p", "g", " ", "f", "o", "r", " ", "d", "e", "t", "a", "i", "l", "s">>

\* "https://example.com/img.jpg"
ExampleUrl ==
  <<"h", "t", "t", "p", "s", ":", "/", "/", "e", "x", "a", "m", "p", "l", "e", ".", "c", "o", "m", "/", "i", "m", "g", ".", "j", "p", "g">>

\* "not a url"
NotUrlText == <<"n", "o", "t", " ", "a", " ", "u", "r", "l">>

\* the texts of an image cell without hyperlink: empty, plain text, a URL,
\* a URL to trim, a URL inside text, a URL in parentheses, a scheme
\* alone, a URL with a space in its host, the scheme in upper case
ImageTextPool ==
  { <<>>,
    <<"0">>,
    NotUrlText,
    <<"p", "i", "c">>,
    <<"h", "t", "t", "p", ":", "/", "/", "g">>,
    <<" ", "h", "t", "t", "p", "s", ":", "/", "/", "t", " ">>,
    SeeUrlText,
    <<"(", "h", "t", "t", "p", ":", "/", "/", "x", ")">>,
    <<"x", " ", "h", "t", "t", "p", ":", "/", "/", " ", "y">>,
    <<"h", "t", "t", "p", ":", "/", "/">>,
    <<"h", "t", "t", "p", ":", "/", "/", "a", " ", "b">>,
    <<"H", "T", "T", "P", ":", "/", "/", "X">> }

\* the hyperlink of a linked image cell
ImageLink == <<"h", "t", "t", "p", "s", ":", "/", "/", "h", "/", "1">>

\* the image cells: every text without hyperlink, and a hyperlink on a cell
\* whose text is empty, plain text, another URL
ImageCellPool ==
  {SheetCell(t, Null) : t \in ImageTextPool}
  \cup {SheetCell(t, ImageLink) : t \in {<<>>, <<"p", "i", "c">>, <<"h", "t", "t", "p", ":", "/", "/", "g">>}}

\* a row with hyperlinks on the name cell and on the price cell, and none
\* on the image cells
LinkedOutsideImages ==
  <<SheetCell(<<"A">>, ImageLink), SheetCell(<<>>, Null), Blank, Blank,
    SheetCell(<<"5">>, Null), SheetCell(<<"7">>, ImageLink),
    SheetCell(<<"p", "i", "c">>, Null), Blank>>

NormRowPool ==
  {SheetRow(n, <<>>, <<"5">>, <<>>, Blank, Blank) : n \in NamePool}
  \cup {SheetRow(<<"A">>, b, <<"5">>, <<>>, Blank, Blank) : b \in BrandPool}
  \cup {SheetRow(<<"A">>, <<"x">>, s, <<>>, Blank, Blank) : s \in StockPool}
  \cup {SheetRow(<<"A">>, <<>>, s, <<"7">>, Blank, Blank) : s \in {<<>>, <<"0">>}}
  \cup {SheetRow(<<"A">>, <<>>, <<"5">>, f, Blank, Blank) : f \in PricePool}
  \cup {SheetRow(<<"A">>, <<>>, <<"5">>, <<>>, g, Blank) : g \in ImageCellPool}
  \cup {SheetRow(<<"A">>, <<>>, <<"5">>, <<>>, SheetCell(<<"p", "i", "c">>, Null), h) :
          h \in {SheetCell(<<>>, ImageLink), SheetCell(<<"h", "t", "t", "p", ":", "/", "/", "g">>, Null)}}
  \cup {SheetRow(<<"A">>, <<>>, <<"5">>, <<>>, SheetCell(SeeUrlText, Null),
                 SheetCell(NotUrlText, Null))}
  \cup {SheetRow(<<>>, <<>>, <<>>, <<>>, Blank, Blank)}
  \cup {LinkedOutsideImages}

\* the sheet sh with row k replaced by r
ReplaceAt(sh, k, r) == [n \in 1..Len(sh) |-> IF n = k THEN r ELSE sh[n]]

\* the text is the decimal text of a number: an unformatted read returns
\* such a cell as the number
IsNumberText(s) ==
  LET v == parseFloat(s) IN v.k = "fin" /\ NumberToString(v) = s

\* the columns of which a cell may arrive as a number
NumberColumns == {0, 1, 4, 5, 6}

\* the raw rows in which the cell of column c of row k is a number (c = -1:
\* no cell is)
AsNumber(raw, k, c) ==
  IF c < 0 THEN raw
  ELSE [n \in 1..Len(raw) |->
          IF n # k THEN raw[n]
          ELSE [j \in 1..Len(raw[n]) |->
                  IF j = c + 1 THEN NumCell(raw[n][j].s) ELSE raw[n][j]]]

\* the three rows of the README's example: a product with a ruble price and
\* no image cells, a row without name, a product out of stock
ScenarioSheet ==
  << SheetRow(<<"V", "a", "s", "e", " ", "A">>, <<>>, <<"5">>,
              <<"RUBLE", "1", ",", "2", "0", "0", ".", "0", "0">>, Blank, Blank),
     SheetRow(<<>>, <<>>, <<"3">>, <<>>, Blank, Blank),
     SheetRow(<<"P", "l", "a", "t", "e", " ", "B">>, <<>>, <<"0">>, <<>>, Blank, Blank) >>

\* the state in which processProducts is called with the raw rows raw read
\* from the sheet sh
NormStart(p, sh, raw) ==
  /\ sheet = sh
  /\ table = {}
  /\ pc = [q \in Runs |-> IF q = p THEN "read-complete" ELSE "idle"]
  /\ authHeader = [q \in Runs |-> Null]
  /\ secret = [q \in Runs |-> Null]
  /\ cfg = [q \in Runs |-> NoEnv]
  /\ credEnv = [q \in Runs |-> NoCredEnv]
  /\ credSource = [q \in Runs |-> "none"]
  /\ rows = [q \in Runs |-> IF q = p THEN raw ELSE <<>>]
  /\ hyperlinks = [q \in Runs |-> IF q = p THEN HyperlinksOf(sh) ELSE NoHyperlinks]
  /\ products = [q \in Runs |-> <<>>]
  /\ ids = [q \in Runs |-> {}]
  /\ i = [q \in Runs |-> 0]
  /\ inserted = [q \in Runs |-> 0]
  /\ calls = [q \in Runs |-> <<>>]
  /\ before = [q \in Runs |-> {}]
  /\ result = [q \in Runs |-> NoResult]
  /\ page = NewPage

\* the rows of SheetRowPool that surround the varied row: the two the
\* normalizer keeps, the one without name and the one out of stock
NormBasePool ==
  {r \in SheetRowPool : r[5].text \in {<<"5">>, <<"2">>, <<"3">>, <<"0">>}}

\* the sheet is sh, or sh with its row k replaced by r (one sh for each
\* sheet this gives), of which one number cell may arrive as a number; or
\* the sheet is the example's
NormInit ==
  \E p \in HttpRuns :
    \/ \E n \in 0..MaxNormRows :
         \E sh \in [1..n -> NormBasePool], k \in 0..n :
           \E r \in (IF k = 0 THEN {<<>>} ELSE NormRowPool),
              c \in (IF k = 0 THEN {0 - 1} ELSE NumberColumns \cup {0 - 1}) :
             /\ IF k = 0 THEN TRUE ELSE sh[k] = (CHOOSE x \in NormBasePool : TRUE)
             /\ IF c < 0 THEN TRUE ELSE IsNumberText(r[c + 1].text)
             /\ LET sh2 == IF k = 0 THEN sh ELSE ReplaceAt(sh, k, r)
                IN  NormStart(p, sh2, AsNumber(ValuesOf(sh2), k, c))
    \/ NormStart(p, ScenarioSheet, ValuesOf(ScenarioSheet))

NormNext == \E p \in Runs : Normalize(p)

SpecNormalizer == NormInit /\ [][NormNext]_vars

(***************************************************************************)
(* SpecCatalog: the catalog page Home over a table that holds still: the   *)
(* fetch of the products on mount, then the visitor's selections of a      *)
(* brand and of a price range; the filter effect runs after every change   *)
(* of products, selectedBrand or selectedPrice.                            *)
(***************************************************************************)
\* the variables of the sync, which the page leaves alone
syncVars ==
  <<sheet, table, pc, authHeader, secret, cfg, credEnv, credSource, rows,
    hyperlinks, products, ids, i, inserted, calls, before, result>>

\* a record of the table by its fields
CatalogRecord(id, name, brand, stock, price) ==
  [id |-> id,
   rec |-> [name |-> name, brand |-> brand, stock |-> stock, price |-> price,
            image_url_1 |-> Null, image_url_2 |-> Null]]

\* the records a table of the model is made of: prices at and next to the
\* bounds of the ranges, a price of zero, an absent price, a negative
\* price, a fraction; three brands and no brand; a record without stock;
\* two records of one name
CatalogRecordPool ==
  { CatalogRecord(1, <<"A">>, <<"x">>, 1, Fin(0, 0)),
    CatalogRecord(2, <<"B">>, <<"x">>, 2, Fin(499995, 1)),
    CatalogRecord(3, <<"C">>, <<"y">>, 1, Fin(50000, 0)),
    CatalogRecord(4, <<"D">>, Null, 3, Fin(150000, 0)),
    CatalogRecord(5, <<"E">>, <<"y">>, 1, Fin(150001, 0)),
    CatalogRecord(6, <<"F">>, <<"x">>, 1, NoPrice),
    CatalogRecord(7, <<"G">>, <<"x">>, 0, Fin(1200, 0)),
    CatalogRecord(8, <<"A">>, Null, 1, Fin(0 - 5, 0)),
    CatalogRecord(9, <<"A", "B">>, All, 1, Fin(49999, 0)) }

\* the number of records of a table of the model
MaxCatalog == 2

CatalogTables == {t \in SUBSET CatalogRecordPool : Cardinality(t) <= MaxCatalog}

\* the order of the characters of the names
Collation == <<"A", "B", "C", "D", "E", "F", "G">>

CharRank(c) == CHOOSE k \in 1..Len(Collation) : Collation[k] = c

\* a sorts before b or equals it
RECURSIVE LexLeq(_, _)
LexLeq(a, b) ==
  IF a = <<>> THEN TRUE
  ELSE IF b = <<>> THEN FALSE
  ELSE IF a[1] = b[1] THEN LexLeq(Tail(a), Tail(b))
  ELSE CharRank(a[1]) < CharRank(b[1])

\* .order('name'): the lists of the records of S in the order of their
\* names; records of one name come in any order
OrderByName(S) ==
  { l \in [1..Cardinality(S) -> S] :
      /\ \A a, b \in 1..Cardinality(S) : a # b => l[a] # l[b]
      /\ \A a, b \in 1..Cardinality(S) :
           a < b => LexLeq(l[a].rec.name, l[b].rec.name) }

\* the brands of the brand select: the brands of the fetched records that
\* are neither null nor empty
UniqueBrands(data) ==
  {data[k].rec.brand : k \in {n \in 1..Len(data) :
                                 data[n].rec.brand \notin {Null, <<>>}}}

PriceRanges == {"under-50000", "50000-150000", "over-150000"}

\* !p.price: the price is null or zero
PriceFalsy(price) == price = NoPrice \/ price.m = 0

\* price < n, price > n for a finite price and an integer n
PriceLess(price, n) == price.m < n * Pow10(price.d)

PriceGreater(price, n) == price.m > n * Pow10(price.d)

\* the callback of the price filter
PriceFilter(price, selectedPrice) ==
  IF PriceFalsy(price) THEN FALSE
  ELSE CASE selectedPrice = "under-50000" -> PriceLess(price, 50000)
         [] selectedPrice = "50000-150000" ->
              ~PriceLess(price, 50000) /\ ~PriceGreater(price, 150000)
         [] selectedPrice = "over-150000" -> PriceGreater(price, 150000)
         [] OTHER -> TRUE

\* the filter effect: the brand filter unless the brand is 'all', then the
\* price filter unless the price is 'all'
FilterProducts(list, selectedBrand, selectedPrice) ==
  LET byBrand == IF selectedBrand = All THEN list
                 ELSE SelectSeq(list, LAMBDA r : r.rec.brand = selectedBrand)
  IN  IF selectedPrice = "all" THEN byBrand
      ELSE SelectSeq(byBrand, LAMBDA r : PriceFilter(r.rec.price, selectedPrice))

\* the page as the filter effect leaves it
Filtered(pg) ==
  [pg EXCEPT !.filteredProducts =
               FilterProducts(pg.products, pg.selectedBrand, pg.selectedPrice)]

CatalogInit ==
  /\ sheet = <<>>
  /\ table \in CatalogTables
  /\ pc = [p \in Runs |-> "idle"]
  /\ authHeader = [p \in Runs |-> Null]
  /\ secret = [p \in Runs |-> Null]
  /\ cfg = [p \in Runs |-> NoEnv]
  /\ credEnv = [p \in Runs |-> NoCredEnv]
  /\ credSource = [p \in Runs |-> "none"]
  /\ rows = [p \in Runs |-> <<>>]
  /\ hyperlinks = [p \in Runs |-> NoHyperlinks]
  /\ products = [p \in Runs |-> <<>>]
  /\ ids = [p \in Runs |-> {}]
  /\ i = [p \in Runs |-> 0]
  /\ inserted = [p \in Runs |-> 0]
  /\ calls = [p \in Runs |-> <<>>]
  /\ before = [p \in Runs |-> {}]
  /\ result = [p \in Runs |-> NoResult]
  /\ page = NewPage

\* fetchProducts of Home answered with the records: setProducts,
\* setFilteredProducts, setBrands, setLoading(false), then the filter effect
FetchProducts ==
  /\ page.loading
  /\ \E data \in OrderByName(fetchProducts(table)) :
       page' = Filtered([page EXCEPT !.loading = FALSE,
                                     !.products = data,
                                     !.filteredProducts = data,
                                     !.brands = UniqueBrands(data)])
  /\ UNCHANGED syncVars

\* fetchProducts of Home answered with an error: nothing is set but
\* setLoading(false)
FetchProductsFailed ==
  /\ page.loading
  /\ page' = [page EXCEPT !.loading = FALSE]
  /\ UNCHANGED syncVars

\* the visitor picks a brand of the brand select, then the filter effect
setSelectedBrand ==
  /\ \E b \in {All} \cup page.brands :
       /\ b # page.selectedBrand
       /\ page' = Filtered([page EXCEPT !.selectedBrand = b])
  /\ UNCHANGED syncVars

\* the visitor picks a price range of the price select, then the filter
\* effect
setSelectedPrice ==
  /\ \E r \in {"all"} \cup PriceRanges :
       /\ r # page.selectedPrice
       /\ page' = Filtered([page EXCEPT !.selectedPrice = r])
  /\ UNCHANGED syncVars

CatalogNext ==
  \/ FetchProducts
  \/ FetchProductsFailed
  \/ setSelectedBrand
  \/ setSelectedPrice

SpecCatalog == CatalogInit /\ [][CatalogNext]_vars

(***************************************************************************)
(* Properties.                                                             *)
(***************************************************************************)
Last(seq) == seq[Len(seq)]

CallNames(p) == {calls[p][k].name : k \in 1..Len(calls[p])}

FailedCallNames(p) == {calls[p][k].name : k \in {n \in 1..Len(calls[p]) : ~calls[p][n].ok}}

SecretConfigured(p) == secret[p] # Null /\ secret[p] # <<>>

\* C1: when a sync run is done, the table holds exactly as many records as
\* the normalizer produced, whatever it held before the run.
C1_ReplaceAllCount ==
  \A p \in Runs : pc[p] = "done" => Cardinality(table) = Len(products[p])

\* a run is done with two records where the table held one before
C1_Witness ==
  \E p \in Runs :
    /\ pc[p] = "done"
    /\ Len(products[p]) = 2
    /\ Cardinality(before[p]) = 1

ValidRecord(rec) ==
  /\ rec.stock > 0
  /\ rec.name # Null
  /\ rec.name # <<>>
  /\ rec.name[1] \notin WhiteSpace
  /\ rec.name[Len(rec.name)] \notin WhiteSpace

\* C2: every record of a normalized batch, and so every record an insert
\* call is given and every record of the table, has stock > 0 and a name
\* that is not empty after trimming.
C2_PersistedRecordsValid ==
  /\ \A p \in Runs : \A k \in 1..Len(products[p]) : ValidRecord(products[p][k])
  /\ \A r \in table : ValidRecord(r.rec)

\* a run has read two rows, dropped one and inserted the other
C2_Witness ==
  \E p \in Runs :
    /\ pc[p] = "done"
    /\ Len(rows[p]) = 2
    /\ Len(products[p]) = 1
    /\ inserted[p] = 1

\* C3, as claimed: a POST without Authorization header is answered 401 and
\* issues no delete and no insert call.
C3_NoHeaderIs401 ==
  \A p \in HttpRuns :
    (pc[p] # "idle" /\ authHeader[p] = Null)
      => /\ result[p].status = 401
         /\ CallNames(p) \cap {"delete", "insert"} = {}

\* C3, amended: when the server's secret is configured, a POST without
\* Authorization header is answered 401 and issues no delete and no insert
\* call.
C3_NoHeaderIs401WhenConfigured ==
  \A p \in HttpRuns :
    (pc[p] # "idle" /\ authHeader[p] = Null /\ SecretConfigured(p))
      => /\ pc[p] = "rejected"
         /\ result[p].status = 401
         /\ CallNames(p) \cap {"delete", "insert"} = {}

\* a request without the header was rejected by a server that has a secret
C3_Witness ==
  \E p \in HttpRuns :
    /\ pc[p] = "rejected"
    /\ authHeader[p] = Null
    /\ secret[p] = <<"k">>
    /\ result[p].status = 401

\* the header is exactly 'Bearer ' followed by the server's secret
ExactBearer(p) == secret[p] # Null /\ authHeader[p] = Bearer \o secret[p]

\* the run got past the authorization of POST
PastAuth(p) == pc[p] \notin {"idle", "rejected"}

\* the answer 401 {success: false, error: "Unauthorized"}, no step run
Unauthorized401(p) ==
  /\ pc[p] = "rejected"
  /\ result[p].status = 401
  /\ ~result[p].success
  /\ result[p].error = "Unauthorized"
  /\ calls[p] = <<>>
  /\ cfg[p] = NoEnv
  /\ credSource[p] = "none"
  /\ table = before[p]

\* C4, as claimed: a pipeline step is run only for a header that is exactly
\* 'Bearer ' and the secret, and every other header is answered 401
\* Unauthorized with no pipeline step.
C4_OnlyExactBearerElse401 ==
  \A p \in HttpRuns :
    pc[p] # "idle" =>
      /\ PastAuth(p) => ExactBearer(p)
      /\ ~ExactBearer(p) => Unauthorized401(p)

\* C4, amended: a pipeline step is run only for a header that is exactly
\* 'Bearer ' and the secret; when the server's secret is configured, every
\* other header is answered 401 Unauthorized with no pipeline step.
C4_OnlyExactBearerElse401WhenConfigured ==
  \A p \in HttpRuns :
    pc[p] # "idle" =>
      /\ PastAuth(p) => (ExactBearer(p) /\ SecretConfigured(p))
      /\ (SecretConfigured(p) /\ ~ExactBearer(p)) => Unauthorized401(p)

\* a request with another token was rejected, and one with the secret ran
C4_Witness ==
  \E p \in HttpRuns :
    /\ pc[p] = "rejected"
    /\ authHeader[p] = Bearer \o <<"x">>
    /\ secret[p] = <<"k">>
    /\ result[p].status = 401

\* C5: when SYNC_SECRET_KEY is not configured, every POST, whatever its
\* header, is answered 500 with the configuration error and runs no
\* pipeline step.
C5_NoSecretIs500 ==
  \A p \in HttpRuns :
    (pc[p] # "idle" /\ ~SecretConfigured(p))
      => /\ pc[p] = "rejected"
         /\ result[p].status = 500
         /\ ~result[p].success
         /\ result[p].error = "Server configuration error"
         /\ calls[p] = <<>>
         /\ cfg[p] = NoEnv
         /\ credSource[p] = "none"
         /\ table = before[p]

\* a request with a well-formed bearer header was answered 500 by a server
\* whose secret is the empty string
C5_Witness ==
  \E p \in HttpRuns :
    /\ pc[p] = "rejected"
    /\ authHeader[p] = Bearer \o <<"k">>
    /\ secret[p] = <<>>
    /\ result[p].status = 500

\* C6: an authorized POST whose pipeline completes answers 200
\* {success: true, count: n}, n the number of normalized records, which is
\* the number of records the run inserted.
C6_SuccessCount ==
  \A p \in HttpRuns :
    pc[p] = "done" =>
      /\ ExactBearer(p)
      /\ result[p].status = 200
      /\ result[p].success
      /\ result[p].count = Len(products[p])
      /\ result[p].count = inserted[p]

\* a POST answered with count 2
C6_Witness ==
  \E p \in HttpRuns :
    /\ pc[p] = "done"
    /\ result[p].count = 2
    /\ before[p] # {}

\* the credential sources, as far as the run has looked at them, give no
\* credentials
CredentialFailure(p) ==
  \/ credEnv[p].json = "malformed"
  \/ /\ credEnv[p].json = "absent"
     /\ credEnv[p].path \in {"absent", "missing", "malformed"}

\* a required environment value was found missing
EnvFailure(p) == "unset" \in {cfg[p].sheetId, cfg[p].url, cfg[p].key}

\* some step of the run's pipeline has failed
StepFailure(p) ==
  FailedCallNames(p) # {} \/ EnvFailure(p) \/ CredentialFailure(p)

\* the message of the error a failed call is reported with
CallError(name) ==
  CASE name = "auth.getClient" -> "auth.getClient failed"
    [] name = "values.get" -> "spreadsheets.values.get failed"
    [] name = "spreadsheets.get" -> "spreadsheets.get failed"
    [] name = "select" -> "Failed to fetch products"
    [] name = "delete" -> "Failed to delete products"
    [] name = "insert" -> "Failed to insert products batch"

\* C7: for an authorized POST, the failure of any pipeline step gives the
\* answer 500 {success: false, error: message}: no failure is answered as a
\* success, and every failure ends in an answer.
C7_FailureIs500 ==
  \A p \in HttpRuns :
    /\ StepFailure(p) =>
         /\ pc[p] = "failed"
         /\ result[p].status = 500
         /\ ~result[p].success
         /\ result[p].error # ""
         /\ FailedCallNames(p) # {} => result[p].error = CallError(Last(calls[p]).name)
    /\ pc[p] = "failed" => (StepFailure(p) /\ result[p].status = 500)
    /\ result[p].success => (pc[p] = "done" /\ ~StepFailure(p))

\* the insert of an authorized POST failed and the answer is 500
C7_Witness ==
  \E p \in HttpRuns :
    /\ pc[p] = "failed"
    /\ calls[p] # <<>>
    /\ Last(calls[p]) = [name |-> "insert", ok |-> FALSE]
    /\ result[p].status = 500

\* the steps of a run in their order, with the failure of each step that can
\* fail and the return of a finished run
StepOrder ==
  { <<"idle", "init">>, <<"idle", "rejected">>, <<"init", "creds-parsed">>,
    <<"creds-parsed", "credentials-loaded">>, <<"credentials-loaded", "values-read">>,
    <<"values-read", "read-complete">>, <<"read-complete", "normalized">>,
    <<"normalized", "ids-fetched">>, <<"normalized", "deleted">>,
    <<"ids-fetched", "deleted">>, <<"deleted", "inserting">>,
    <<"inserting", "inserted">>, <<"deleted", "inserted">>, <<"inserted", "done">> }
  \cup {<<s, "failed">> : s \in {"idle", "init", "creds-parsed", "credentials-loaded",
                                 "values-read", "normalized", "ids-fetched",
                                 "deleted", "inserting"}}
  \cup {<<s, "idle">> : s \in {"done", "failed", "rejected"}}

\* C8: a run takes its steps in the order credentials-loaded, read-complete,
\* normalized, deleted, inserted, done; a step starts only when every call
\* before it succeeded; a failure moves the run to failed with the table as
\* the failing step found it, no call is issued twice (but the insert, once
\* per chunk) and no call follows a failed one.
C8_StepOrder ==
  [][\A p \in Runs :
       /\ pc'[p] # pc[p] => <<pc[p], pc'[p]>> \in StepOrder
       /\ pc'[p] = "failed" => table' = table
       /\ Len(calls'[p]) > Len(calls[p]) =>
            \A k \in 1..Len(calls[p]) :
              /\ calls[p][k].ok
              /\ calls[p][k].name # Last(calls'[p]).name \/ calls[p][k].name = "insert"]_vars

\* a run went through every step, with a delete and an insert
C8_Witness ==
  \E p \in Runs :
    /\ pc[p] = "done"
    /\ [k \in 1..Len(calls[p]) |-> calls[p][k].name]
         = <<"auth.getClient", "values.get", "spreadsheets.get", "select", "delete", "insert">>

\* C9: when the credential load or one of the two reads of the sheet fails,
\* the run fails before any id fetch, delete or insert, and the table is as
\* it was before the run.
C9_ReadFailureLeavesTable ==
  \A p \in Runs :
    (\/ CredentialFailure(p)
     \/ FailedCallNames(p) \cap {"auth.getClient", "values.get", "spreadsheets.get"} # {})
      => /\ pc[p] = "failed"
         /\ CallNames(p) \cap {"select", "delete", "insert"} = {}
         /\ table = before[p]

\* the grid read of a run failed while the table held records
C9_Witness ==
  \E p \in Runs :
    /\ pc[p] = "failed"
    /\ calls[p] # <<>>
    /\ Last(calls[p]) = [name |-> "spreadsheets.get", ok |-> FALSE]
    /\ table # {}

\* C10: a failure of the id fetch or of the bulk delete fails the run, and
\* no insert call is issued after it.
C10_DeleteFailureIsFatal ==
  \A p \in Runs :
    FailedCallNames(p) \cap {"select", "delete"} # {}
      => /\ pc[p] = "failed"
         /\ ~Last(calls[p]).ok
         /\ "insert" \notin CallNames(p)
         /\ inserted[p] = 0

\* the bulk delete of a run with a batch to insert failed
C10_Witness ==
  \E p \in Runs :
    /\ pc[p] = "failed"
    /\ calls[p] # <<>>
    /\ Last(calls[p]) = [name |-> "delete", ok |-> FALSE]
    /\ Len(products[p]) > 0

\* the run's last call is the insert and it failed, after a bulk delete that
\* succeeded or an id fetch that found nothing to delete
InsertFailedAfterDelete(p) ==
  /\ calls[p] # <<>>
  /\ Last(calls[p]) = [name |-> "insert", ok |-> FALSE]
  /\ \A k \in 1..(Len(calls[p]) - 1) : calls[p][k].ok

\* C11: when the insert fails after the delete succeeded, the run is failed
\* and the table is empty: no record the table held before the run is back
\* and no record of the run's batch is in it.
C11_InsertFailureLeavesEmpty ==
  \A p \in Runs :
    InsertFailedAfterDelete(p)
      => /\ pc[p] = "failed"
         /\ table = {}
         /\ table \cap before[p] = {}
         /\ \A r \in table : \A k \in 1..Len(products[p]) : r.rec # products[p][k]
         /\ inserted[p] = 0

\* the insert of a run with a batch failed after the run deleted a record
C11_Witness ==
  \E p \in Runs :
    /\ InsertFailedAfterDelete(p)
    /\ [name |-> "delete", ok |-> TRUE] \in {calls[p][k] : k \in 1..Len(calls[p])}
    /\ before[p] # {}
    /\ Len(products[p]) > 0
    /\ table = {}

\* number of calls of the run that succeeded
OkCalls(p) == Cardinality({k \in 1..Len(calls[p]) : calls[p][k].ok})

\* number of chunks of at most batchSize records a batch of n records has
Chunks(n) == (n + batchSize - 1) \div batchSize

\* C12: the writer inserts the batch in consecutive chunks of at most 100
\* records, one insert call per chunk, in input order: after s successful
\* calls the table holds the first Min(100 * s, n) records of the batch, the
\* ids given in input order.  When the call for chunk k fails, the run is
\* failed, the error names k, and that call is the run's last: chunk k is
\* not tried again and no later chunk is tried.
C12_ChunkedInsert ==
  \A p \in Runs :
    pc[p] # "idle" =>
      LET n == Len(products[p])
          c == Len(calls[p])
          s == OkCalls(p)
      IN  /\ \A k \in 1..c : calls[p][k].name = "insert"
          /\ \A k \in 1..(c - 1) : calls[p][k].ok
          /\ c <= Chunks(n)
          /\ inserted[p] = Min(batchSize * s, n)
          /\ table = {[id |-> k - 1, rec |-> products[p][k]] : k \in 1..inserted[p]}
          /\ (pc[p] = "failed") = (c = s + 1)
          /\ pc[p] = "failed" => result[p].batch = c
          /\ pc[p] \in {"inserted", "done"} => (s = Chunks(n) /\ inserted[p] = n)
          /\ pc[p] \in {"deleted", "inserting"} => (c = s /\ (s < Chunks(n) \/ n = 0))

\* the call for the second chunk failed after the first chunk of 100 was
\* inserted
C12_Witness ==
  \E p \in Runs :
    /\ pc[p] = "failed"
    /\ Len(products[p]) > batchSize
    /\ Len(calls[p]) = 2
    /\ result[p].batch = 2
    /\ Cardinality(table) = batchSize

\* the run's bulk delete has succeeded and its insert has not completed
BetweenDeleteAndInsert(p) ==
  /\ pc[p] \in {"deleted", "inserting"}
  /\ [name |-> "delete", ok |-> TRUE] \in {calls[p][k] : k \in 1..Len(calls[p])}

\* C13: in a run that started with a table that is not empty and that has a
\* batch to insert, once the delete has completed and until the insert
\* completes, a reader of the table observes zero products.
C13_EmptyWindow ==
  \A p \in Runs :
    (BetweenDeleteAndInsert(p) /\ before[p] # {} /\ Len(products[p]) > 0)
      => fetchProducts(table) = {}

\* such a state: a reader saw a product before the run, would see none now,
\* and the run still has its batch of two to insert
C13_Witness ==
  \E p \in Runs :
    /\ BetweenDeleteAndInsert(p)
    /\ fetchProducts(before[p]) # {}
    /\ Len(products[p]) = 2
    /\ inserted[p] = 0
    /\ fetchProducts(table) = {}

\* both runs have fetched the ids to delete and neither has inserted its
\* last chunk
BothBetweenFetchAndInsert ==
  \A p \in Runs : pc[p] \in {"ids-fetched", "deleted", "inserting"}

BothDone == \A p \in Runs : pc[p] = "done"

\* the table holds the batch of every run, and so every record of it twice
\* when the runs read the same sheet
DuplicateRecords ==
  /\ \A p, q \in Runs : products[p] = products[q]
  /\ \A p \in Runs : Cardinality(table) = Cardinality(Runs) * Len(products[p])
  /\ \A r \in table : \E d \in table : d.id # r.id /\ d.rec = r.rec

\* C14: two runs are not kept apart.  Once both are between their id fetch
\* and their last insert, neither deletes what the other inserts: when both
\* are done the table holds every record twice, more records than one
\* normalizer output (as soon as that output is not empty).
C14_OverlapDuplicates ==
  [](BothBetweenFetchAndInsert => [](BothDone => DuplicateRecords))

\* two runs over the same sheet are done and the table holds two records
\* where the normalizer's output has one
C14_Witness ==
  /\ BothDone
  /\ \A p \in Runs : Len(products[p]) = 1
  /\ Cardinality(table) = 2
  /\ DuplicateRecords

\* column A of the raw row is absent, empty or white space only
NameAbsent(row) ==
  \/ Len(row) < 1
  \/ \A k \in 1..Len(row[1].s) : row[1].s[k] \in WhiteSpace

\* column E of the raw row coerced to an integer: 0 when it is absent or
\* does not start with a number
StockOf(row) == IF Len(row) < 5 THEN 0 ELSE ParseStock(row[5])

\* the rule of exclusion
Excluded(row) == NameAbsent(row) \/ StockOf(row) <= 0

\* the indices (1-based) of the rows of rws from n on that the rule keeps,
\* in their order
RECURSIVE KeptFrom(_, _)
KeptFrom(rws, n) ==
  IF n > Len(rws) THEN <<>>
  ELSE (IF Excluded(rws[n]) THEN <<>> ELSE <<n>>) \o KeptFrom(rws, n + 1)

\* C15: the normalizer excludes a raw row if and only if its trimmed name
\* is empty or absent or its stock coerced to an integer is <= 0: the
\* output has one record for each row the rule keeps, with that row's
\* trimmed name and its stock, and none for any other row.
C15_ExcludedIff ==
  \A p \in Runs :
    pc[p] = "normalized" =>
      LET kept == KeptFrom(rows[p], 1)
      IN  /\ Len(products[p]) = Len(kept)
          /\ \A j \in 1..Len(kept) :
                /\ products[p][j].name = Trim(rows[p][kept[j]][1].s)
                /\ products[p][j].stock = StockOf(rows[p][kept[j]])
                /\ products[p][j].stock > 0

\* three rows normalized: one with a name and a stock that is no number,
\* one with a stock and a name of white space, one kept
C15_Witness ==
  \E p \in Runs :
    /\ pc[p] = "normalized"
    /\ Len(rows[p]) = 3
    /\ Len(products[p]) = 1
    /\ \E n \in 1..3 : ~NameAbsent(rows[p][n]) /\ Cell(rows[p][n], 4) = StrCell(<<"n", "/", "a">>)
    /\ \E n \in 1..3 : NameAbsent(rows[p][n]) /\ StockOf(rows[p][n]) > 0

\* C16: the normalizer's output is the subsequence of the kept rows in input
\* order: its j-th record is the record of the j-th kept row, there is
\* exactly one record per kept row, and a discarded row leaves nothing:
\* every entry is a record with a name.
C16_OrderPreserved ==
  \A p \in Runs :
    pc[p] = "normalized" =>
      LET kept == KeptFrom(rows[p], 1)
      IN  /\ DOMAIN products[p] = 1..Len(kept)
          /\ \A j \in 1..Len(kept) :
                /\ products[p][j] = MapRow(rows[p][kept[j]], kept[j] - 1, hyperlinks[p])
                /\ products[p][j].name # Null
          /\ \A j, k \in 1..Len(kept) : j < k => kept[j] < kept[k]

\* a kept row, a discarded row, another kept row: two records, the first
\* row's first
C16_Witness ==
  \E p \in Runs :
    /\ pc[p] = "normalized"
    /\ Len(rows[p]) = 3
    /\ KeptFrom(rows[p], 1) = <<1, 3>>
    /\ Len(products[p]) = 2
    /\ products[p][1] # products[p][2]
    /\ products[p][1] = MapRow(rows[p][1], 0, hyperlinks[p])

\* the image URL of a record that comes from column c (6 or 7)
ImageUrl(rec, c) == IF c = 6 THEN rec.image_url_1 ELSE rec.image_url_2

\* C17: for every row index and each image column, when the overlay has an
\* entry for (row index, column), the record's image URL is that entry,
\* whatever the text of the cell.
C17_OverlayWins ==
  \A p \in Runs :
    pc[p] = "normalized" =>
      LET kept == KeptFrom(rows[p], 1)
      IN  \A j \in 1..Len(kept) : \A c \in {6, 7} :
            <<kept[j] - 1, c>> \in DOMAIN hyperlinks[p]
              => ImageUrl(products[p][j], c) = hyperlinks[p][<<kept[j] - 1, c>>]

\* a cell of column 6 whose text is a URL and whose hyperlink is another:
\* the record has the hyperlink
C17_Witness ==
  \E p \in Runs :
    /\ pc[p] = "normalized"
    /\ \E j \in 1..Len(products[p]) :
         LET n == KeptFrom(rows[p], 1)[j]
         IN  /\ n > 1
             /\ <<n - 1, 6>> \in DOMAIN hyperlinks[p]
             /\ Cell(rows[p][n], 6) = StrCell(<<"h", "t", "t", "p", ":", "/", "/", "g">>)
             /\ products[p][j].image_url_1 = ImageLink

\* u is in t at position p: http:// or https://, then one or more characters
\* that are no white space, quote or closing parenthesis, up to the first
\* such character or the end of t
EmbeddedAt(t, p, u) ==
  LET sl == IF StartsWith(u, Https) THEN Len(Https) ELSE Len(Http)
  IN  /\ StartsWith(u, Http) \/ StartsWith(u, Https)
      /\ Len(u) > sl
      /\ p + Len(u) - 1 <= Len(t)
      /\ SubSeq(t, p, p + Len(u) - 1) = u
      /\ \A k \in (sl + 1)..Len(u) : u[k] \notin UrlStop
      /\ p + Len(u) > Len(t) \/ t[p + Len(u)] \in UrlStop

EmbeddedUrls(t) ==
  {pu \in {<<p, SubSeq(t, p, e)>> : p \in 1..Len(t), e \in 1..Len(t)} :
     EmbeddedAt(t, pu[1], pu[2])}

\* the image URL a cell text gives when the overlay has no entry
UrlOfText(text) ==
  LET t == Trim(text)
  IN  IF StartsWith(t, Http) \/ StartsWith(t, Https) THEN t
      ELSE IF EmbeddedUrls(t) = {} THEN Null
      ELSE (CHOOSE pu \in EmbeddedUrls(t) : \A o \in EmbeddedUrls(t) : pu[1] <= o[1])[2]

\* the text of column c of a raw row, empty when the row has no such cell
TextOf(row, c) == IF Cell(row, c).t = "undef" THEN <<>> ELSE Cell(row, c).s

\* C18: with no overlay entry for the cell, the image URL is the trimmed
\* cell text when it starts with http:// or https://, else the first
\* http(s):// substring embedded in the text, else absent.
C18_UrlFromText ==
  \A p \in Runs :
    pc[p] = "normalized" =>
      LET kept == KeptFrom(rows[p], 1)
      IN  \A j \in 1..Len(kept) : \A c \in {6, 7} :
            <<kept[j] - 1, c>> \notin DOMAIN hyperlinks[p]
              => ImageUrl(products[p][j], c) = UrlOfText(TextOf(rows[p][kept[j]], c))

\* the examples: "see https://example.com/img.jpg for details" gives
\* https://example.com/img.jpg, "not a url" and an empty cell give absent
C18_Witness ==
  \E p \in Runs :
    /\ pc[p] = "normalized"
    /\ \E j, k \in 1..Len(products[p]) :
         LET n == KeptFrom(rows[p], 1)[j]
             m == KeptFrom(rows[p], 1)[k]
         IN  /\ {<<n - 1, 6>>, <<n - 1, 7>>, <<m - 1, 7>>} \cap DOMAIN hyperlinks[p] = {}
             /\ TextOf(rows[p][n], 6) = SeeUrlText
             /\ products[p][j].image_url_1 = ExampleUrl
             /\ TextOf(rows[p][n], 7) = NotUrlText
             /\ products[p][j].image_url_2 = Null
             /\ TextOf(rows[p][m], 7) = <<>>
             /\ products[p][k].image_url_2 = Null

\* u is a syntactically valid absolute URL of the schemes http and https:
\* the scheme, a host that is not empty, and no white space
ValidAbsoluteUrl(u) ==
  LET sl == IF StartsWith(u, Https) THEN Len(Https) ELSE Len(Http)
  IN  /\ StartsWith(u, Http) \/ StartsWith(u, Https)
      /\ Len(u) > sl
      /\ u[sl + 1] \notin {"/", "?", "#", ":"}
      /\ \A k \in 1..Len(u) : u[k] \notin WhiteSpace

\* C19, as claimed: every record the normalizer emits has, for image_url_1
\* and image_url_2 alike, an absent value or a syntactically valid absolute
\* URL, whatever the cell text and the overlay entry.
C19_ImageUrlsValid ==
  \A p \in Runs :
    pc[p] = "normalized" =>
      \A j \in 1..Len(products[p]) : \A c \in {6, 7} :
        \/ ImageUrl(products[p][j], c) = Null
        \/ ValidAbsoluteUrl(ImageUrl(products[p][j], c))

\* C20, as claimed: every record the normalizer emits has a price that is
\* absent or not negative, whatever the price cell holds.
C20_PriceNonNegative ==
  \A p \in Runs :
    pc[p] = "normalized" =>
      \A j \in 1..Len(products[p]) :
        \/ products[p][j].price = NoPrice
        \/ products[p][j].price.k = "fin" /\ products[p][j].price.m >= 0

\* "27000", the decimal text of the price of "₽27,000.00"
Text27000 == <<"2", "7", "0", "0", "0">>

\* the price cell of the raw row as a text, or Null when it is no text
PriceText(row) == IF Cell(row, 5).t = "str" THEN Cell(row, 5).s ELSE Null

\* C21: the price of a textual cell is parsed after the ruble symbols and
\* abbreviations, the white space and the thousands-separator commas are
\* stripped: "₽27,000.00" gives 27000, "27000" gives 27000, "1 200 руб"
\* gives 1200; and parsing is idempotent on clean decimal strings: parsing
\* the decimal text of a parsed price gives the same price.
C21_PriceParsing ==
  \A p \in Runs :
    pc[p] = "normalized" =>
      LET kept == KeptFrom(rows[p], 1)
      IN  \A j \in 1..Len(products[p]) :
            LET text  == PriceText(rows[p][kept[j]])
                price == products[p][j].price
            IN  text # Null =>
                  /\ text = <<"RUBLE", "2", "7", ",", "0", "0", "0", ".", "0", "0">>
                       => price = Fin(27000, 0)
                  /\ text = Text27000 => price = Fin(27000, 0)
                  /\ text = <<"1", " ", "2", "0", "0", " ", "cyr_er", "cyr_u", "cyr_be">>
                       => price = Fin(1200, 0)
                  /\ price # NoPrice =>
                       ParsePrice(StrCell(NumberToString(price))) = price

\* a kept row whose price cell is "₽27,000.00": the record's price is 27000
\* and its decimal text is "27000"
C21_Witness ==
  \E p \in Runs :
    /\ pc[p] = "normalized"
    /\ \E j \in 1..Len(products[p]) :
         /\ PriceText(rows[p][KeptFrom(rows[p], 1)[j]])
              = <<"RUBLE", "2", "7", ",", "0", "0", "0", ".", "0", "0">>
         /\ products[p][j].price = Fin(27000, 0)
         /\ NumberToString(products[p][j].price) = Text27000

ScenarioRows ==
  << <<StrCell(<<"V", "a", "s", "e", " ", "A">>), StrCell(<<>>), StrCell(<<>>),
       StrCell(<<>>), StrCell(<<"5">>),
       StrCell(<<"RUBLE", "1", ",", "2", "0", "0", ".", "0", "0">>)>>,
     <<StrCell(<<>>), StrCell(<<>>), StrCell(<<>>), StrCell(<<>>), StrCell(<<"3">>)>>,
     <<StrCell(<<"P", "l", "a", "t", "e", " ", "B">>), StrCell(<<>>), StrCell(<<>>),
       StrCell(<<>>), StrCell(<<"0">>)>> >>

\* the raw rows with every row filled up to column H with empty texts
PadRows(rws) ==
  [n \in 1..Len(rws) |->
     [c \in 1..8 |-> IF c <= Len(rws[n]) THEN rws[n][c] ELSE StrCell(<<>>)]]

\* C23: the three raw rows of the example give exactly one record, with
\* name "Vase A", stock 5, price 1200 and absent brand and image URLs; and a
\* short row, whose trailing cells are missing, is handled as if those
\* cells were empty: the output is the output for the rows filled up with
\* empty cells.
C23_ExampleRows ==
  \A p \in Runs :
    pc[p] = "normalized" =>
      /\ rows[p] = ScenarioRows =>
           products[p] =
             << [name        |-> <<"V", "a", "s", "e", " ", "A">>,
                 brand       |-> Null,
                 stock       |-> 5,
                 price       |-> Fin(1200, 0),
                 image_url_1 |-> Null,
                 image_url_2 |-> Null] >>
      /\ products[p] = processProducts(PadRows(rows[p]), hyperlinks[p])

\* the example's rows normalized: three rows, each shorter than the eight
\* columns, one record
C23_Witness ==
  \E p \in Runs :
    /\ pc[p] = "normalized"
    /\ rows[p] = ScenarioRows
    /\ \A n \in 1..3 : Len(rows[p][n]) < 8
    /\ Len(products[p]) = 1

\* the run has issued a read of the spreadsheet
SheetReadIssued(p) == CallNames(p) \cap {"values.get", "spreadsheets.get"} # {}

\* C24: the credential loader uses the inline value whenever it is present,
\* even if a file path is given too, and fails with an error naming the
\* cause, without falling back to the path, when the inline value cannot be
\* decoded and parsed; with a path only it fails when the file is absent;
\* with neither it fails with a configuration error; and in every failure
\* case no read of the spreadsheet is made.
C24_CredentialPrecedence ==
  \A p \in Runs :
    LET ce == credEnv[p]
    IN  /\ ce.json = "valid" => credSource[p] = "inline"
        /\ ce.json = "malformed" =>
             /\ pc[p] = "failed"
             /\ result[p].error = "Failed to parse GOOGLE_CREDENTIALS_JSON"
             /\ credSource[p] = "none"
        /\ ce.json = "absent" /\ ce.path = "missing" =>
             /\ pc[p] = "failed"
             /\ result[p].error = "Credentials file not found"
        /\ ce.json = "absent" /\ ce.path = "valid" => credSource[p] = "file"
        /\ ce.json = "absent" /\ ce.path = "absent" =>
             /\ pc[p] = "failed"
             /\ result[p].error \in
                  {"No credentials provided. Set either GOOGLE_CREDENTIALS_JSON or GOOGLE_CREDENTIALS_PATH",
                   "Either GOOGLE_CREDENTIALS_JSON or GOOGLE_CREDENTIALS_PATH environment variable is required"}
        /\ CredentialFailure(p) =>
             /\ pc[p] = "failed"
             /\ credSource[p] = "none"
             /\ ~SheetReadIssued(p)
             /\ calls[p] = <<>>

\* an inline value that cannot be parsed next to a file path: the run has
\* failed without a read of the spreadsheet and without using the file
C24_Witness ==
  \E p \in Runs :
    /\ credEnv[p] = CredEnv("malformed", "present")
    /\ pc[p] = "failed"
    /\ credSource[p] = "none"
    /\ ~SheetReadIssued(p)

\* the process of the job has ended
JobEnded(p) == result[p].exit # 0 - 1

\* C25: the job exits with status 0 exactly when every step succeeded, and
\* with a status that is not 0 when any step fails, a required environment
\* value found missing before the run starts included.
C25_JobExitStatus ==
  \A p \in JobRuns :
    /\ JobEnded(p) <=> pc[p] \in {"done", "failed"}
    /\ result[p].exit = 0 <=> pc[p] = "done"
    /\ pc[p] = "done" =>
         /\ ~StepFailure(p)
         /\ {"auth.getClient", "values.get", "spreadsheets.get", "select"}
              \subseteq CallNames(p)
         /\ inserted[p] = Len(products[p])
    /\ StepFailure(p) => (pc[p] = "failed" /\ result[p].exit = 1)
    /\ pc[p] = "failed" => StepFailure(p)
    /\ EnvFailure(p) => (calls[p] = <<>> /\ result[p].exit = 1)

\* the job found a required environment value missing and ended with exit
\* code 1 before any call
C25_Witness ==
  \E p \in JobRuns :
    /\ EnvFailure(p)
    /\ pc[p] = "failed"
    /\ result[p].exit = 1
    /\ calls[p] = <<>>

\* the names of the calls the run issued against the products table, in
\* their order
DbCallNames(p) ==
  LET db == SelectSeq(calls[p], LAMBDA c : c.name \in {"select", "delete", "insert"})
  IN  [k \in 1..Len(db) |-> db[k].name]

\* the calls against the table the pipeline issues for a pre-run table tbl
\* and n normalized records: the id fetch, one delete unless the table is
\* empty, one insert for each chunk
PipelineCalls(tbl, n) ==
  <<"select">> \o (IF tbl = {} THEN <<>> ELSE <<"delete">>)
               \o [k \in 1..Chunks(n) |-> "insert"]

Range(l) == {l[k] : k \in 1..Len(l)}

\* the price belongs to the range, as the ranges are stated: under 50000,
\* 50000 to 150000 inclusive, over 150000
InRange(price, range) ==
  CASE range = "under-50000" -> PriceLess(price, 50000)
    [] range = "50000-150000" ->
         ~PriceLess(price, 50000) /\ ~PriceGreater(price, 150000)
    [] range = "over-150000" -> PriceGreater(price, 150000)

\* C27, as claimed: after any sequence of selections the displayed list is
\* exactly the loaded products (records with stock > 0 only) that match the
\* selected brand (or 'all') and the selected price range (or 'all'); a
\* product without price is shown only when the price selection is 'all';
\* and every product with a price belongs to exactly one of the three
\* ranges, so it is shown under exactly one of them.
C27_DisplayedMatchSelection ==
  LET shown(r) ==
        /\ page.selectedBrand = All \/ r.rec.brand = page.selectedBrand
        /\ \/ page.selectedPrice = "all"
           \/ r.rec.price # NoPrice /\ InRange(r.rec.price, page.selectedPrice)
  IN  /\ Range(page.products) \subseteq fetchProducts(table)
      /\ Range(page.filteredProducts) = {r \in Range(page.products) : shown(r)}
      /\ \A r \in Range(page.products) :
           r.rec.price # NoPrice =>
             Cardinality({g \in PriceRanges : InRange(r.rec.price, g)}) = 1

\* the hyperlink of the cell of column c (counted from 0) of sheet row n
\* (counted from 1), Null when the cell has none
LinkOf(n, c) ==
  IF sheet[n][c + 1].link = <<>> THEN Null ELSE sheet[n][c + 1].link

EmptyOutput(p) ==
  /\ pc[p] \in {"normalized", "ids-fetched", "deleted", "inserted", "done", "failed"}
  /\ "spreadsheets.get" \in CallNames(p)
  /\ FailedCallNames(p) \cap {"spreadsheets.get"} = {}
  /\ products[p] = <<>>

\* C29: when the normalizer's output is empty the run still deletes every
\* record there was, issues no insert call and ends in done, the handler
\* with 200 and count 0, the job with exit code 0, with the table empty; it
\* fails only where the id fetch or the delete call fails.
C29_EmptyOutputEmptiesTable ==
  \A p \in Runs :
    EmptyOutput(p) =>
      /\ "insert" \notin CallNames(p)
      /\ inserted[p] = 0
      /\ pc[p] = "failed" => FailedCallNames(p) \cap {"select", "delete"} # {}
      /\ pc[p] \in {"deleted", "inserted", "done"} =>
           /\ table = {}
           /\ before[p] # {} => [name |-> "delete", ok |-> TRUE] \in Range(calls[p])
      /\ pc[p] = "done" =>
           result[p] = IF IsHttp(p) THEN HttpOk(0) ELSE JobExit(0, "", 0)

\* a run over a sheet that gives no record, started with a table that was
\* not empty, has ended in done with the table empty
C29_Witness ==
  \E p \in HttpRuns :
    /\ EmptyOutput(p)
    /\ pc[p] = "done"
    /\ before[p] # {}
    /\ table = {}
    /\ result[p].status = 200
    /\ result[p].count = 0

\* the number of insert calls the run has issued
InsertCalls(p) ==
  Cardinality({k \in 1..Len(calls[p]) : calls[p][k].name = "insert"})

\* the records of the run's batch that are in the table
BatchInTable(p) == {r \in table : r.rec \in Range(products[p])}

\* C30: the range holds at most 99 rows and a chunk has 100 records, so a
\* run, whose batch has at most 99 records, issues at most one insert call
\* and never ends with only a part of its batch in the table; and a run
\* whose id fetch finds no record issues no delete call at all.
C30_OneInsertCall ==
  \A p \in Runs :
    pc[p] # "idle" =>
      /\ Len(products[p]) <= RangeRows =>
           /\ InsertCalls(p) <= 1
           /\ inserted[p] \in {0, Len(products[p])}
           /\ Cardinality(BatchInTable(p)) \in {0, Len(products[p])}
           /\ pc[p] # "inserting"
      /\ before[p] = {} => "delete" \notin CallNames(p)
      /\ pc[p] \in {"deleted", "inserting", "inserted", "done"} /\ before[p] # {}
           => "delete" \in CallNames(p)

\* a run with the largest batch of the range, 99 records, on an empty
\* table: done after one insert call and no delete call
C30_Witness ==
  \E p \in Runs :
    /\ pc[p] = "done"
    /\ Len(products[p]) = RangeRows
    /\ before[p] = {}
    /\ CallNames(p) = {"select", "insert"}
    /\ InsertCalls(p) = 1
    /\ Cardinality(table) = RangeRows

=============================================================================
